---- MODULE Spec2Model ----
(***************************************************************************)
(* Streaming transcription sessions of asr_compare.                        *)
(*                                                                         *)
(*   variant "file"   : streamIflytekRealtime, src/services/iflytekRealtime.ts *)
(*   variant "legacy" : streamIflytekRealtime, unnamed/part_000            *)
(*   variant "live"   : createLiveTranscriptionSession, unnamed/part_001   *)
(*                                                                         *)
(* One step of the model is one task of the JavaScript event loop (an      *)
(* event handler, a timer callback, an API call of the caller) or one      *)
(* promise reaction (microtask).  Microtasks run before the next task.     *)
(* Texts are sequences of one-character strings.                           *)
(***************************************************************************)
EXTENDS Integers, Sequences, FiniteSets, TLC

VARIABLES
  variant,          \* which session implementation this behaviour runs
  pc,               \* "init" before the session function ran, then "running"
  readyState,       \* readyState of every WebSocket created so far
  closeCalls,       \* number of close() calls made on every WebSocket
  handlersSet,      \* ws.onopen/onmessage/onerror/onclose and .finally installed
  connectTimers,    \* connections whose 10 s connect timer is still pending
  closeEventDue,    \* connection whose close event follows its error event, or 0
  closed,           \* let closed
  streamStarted,    \* let streamStarted
  handshakeTimer,   \* let handshakeTimer: "undefined" or "set"
  handshakePending, \* the 1.5 s timer is armed and has not fired
  outcome,          \* resultPromise
  microtasks,       \* queued promise reactions, oldest first
  signal,           \* "none", "armed" or "aborted"
  abortListener,    \* abortHandler is registered on the signal
  chunks,           \* const chunks = chunkPCMData(pcmBuffer)
  loopPc,           \* pacing loop: "none", "await" (in the 40 ms delay), "returned"
  loopI,            \* index of the chunk sent before the current delay
  sent,             \* everything handed to ws.send, in order
  segments,         \* Map<number, string> as its entries in insertion order
  statusLog,        \* onStatus calls, in order
  errorCount,       \* number of onError calls
  lastError,        \* message of the latest onError call
  updateCount,      \* number of onUpdate calls
  lastUpdate,       \* payload of the latest onUpdate call
  budget,           \* frames that may still arrive
  calls,            \* live: start() and stop() calls the caller may still make
  finals,           \* history: final results stored since the map was last cleared
  ws,               \* live: let ws, a connection number or 0 for null
  isActive,         \* live: let isActive
  sessionId,        \* live: let sessionId, 0 for ''
  connUuid,         \* live: uuid parameter of every connection
  connPromise,      \* live: promise returned by connectWebSocket, per connection
  audioContext,     \* live: audioContext is not null
  source,           \* live: source is not null
  audioWorkletNode, \* live: audioWorkletNode is not null
  portHandlers,     \* live: number of worklet ports with an onmessage handler
  startPc,          \* live: where every start() call stands
  startConn,        \* live: connection opened by every start() call, or 0
  startUuid,        \* live: uuid generated by every start() call
  buffer,           \* framer: byteLength of the buffer given to chunkPCMData
  chunkSize,        \* framer: the chunkBytes argument of chunkPCMData
  params,           \* signing: the params object, its entries in insertion order
  secret,           \* signing: the secret given to generateSignature
  signature,        \* signing: the value generateSignature returned
  config,           \* params: the ModelConfig the connection parameters are built from
  history,          \* app: the stored history as the ids of its items, oldest first
  isProcessing,     \* app: const [isProcessing, setIsProcessing]
  appPc,            \* app: where handleTranscribe stands: "idle", "preparing" or "tasks"
  runs,             \* app: number of handleTranscribe calls so far
  isGlobalActive,   \* panel: const [isGlobalActive, setIsGlobalActive]
  sessionsRef,      \* panel: sessionsRef.current, the session number of a model or 0
  loopModel,        \* panel: the model whose session.start() the loop awaits, or 0
  panelSessions     \* panel: every session created: its model, isActive, its start()

vars == << variant, pc, readyState, closeCalls, handlersSet, connectTimers,
           closeEventDue, closed, streamStarted, handshakeTimer,
           handshakePending, outcome, microtasks, signal, abortListener,
           chunks, loopPc, loopI, sent, segments, statusLog, errorCount,
           lastError, updateCount, lastUpdate, budget, calls, finals, ws,
           isActive, sessionId, connUuid, connPromise, audioContext, source,
           audioWorkletNode, portHandlers, startPc, startConn, startUuid,
           buffer, chunkSize, params, secret, signature, config, history,
           isProcessing, appPc, runs, isGlobalActive, sessionsRef, loopModel,
           panelSessions >>

----------------------------------------------------------------------------
(* Bounds *)

MaxMessages == 2       \* inbound frames of a file-streaming session
MaxLiveFrames == 3     \* inbound and audio frames of a live session started once
MaxLiveCalls == 2      \* start() and stop() calls on a live session
MaxStarts == 2         \* start() calls that find the live session inactive
MaxRestartCalls == 3   \* start() and stop() calls on a live session that is restarted
MaxQuietCalls == 4     \* start() and stop() calls on a live session that receives nothing
MaxRuns == 2           \* app: runs of handleTranscribe
MaxModels == 2         \* panel: configured models
MaxPanelStarts == 2    \* panel: runs of the start loop
MaxChunks == 3
MaxSegId == 3
MaxBytes == 12         \* framer: largest buffer length
MaxChunkBytes == 5     \* framer: largest chunk size
MaxParams == 3         \* signing: most entries of a params object

(* Program constants *)

PCM_CHUNK_BYTES == 1280

undefined == "undefined"
NoSegId == -1           \* data.data?.seg_id is absent or not a number
NoSampleRate == -1      \* config.sampleRate is absent

\* a ModelConfig with none of its optional fields
NoConfig ==
  [accessKeyId |-> "accessKeyId", appId |-> "appId", defaultLang |-> undefined,
   audioEncode |-> undefined, sampleRate |-> NoSampleRate]

MsgConnectTimeout == "connect timeout"            \* '连接超时'
MsgCancelled == "operation cancelled"             \* '操作已取消'
MsgSendFailed == "audio send failed"              \* '音频发送失败'
MsgServerError == "server returned error"         \* '服务返回错误'
MsgFrcFailed == "realtime transcription failed"   \* '实时转写失败'
MsgParseFailed == "cannot parse server data"      \* '无法解析服务端返回数据'
MsgConnectionError == "realtime connection error" \* '实时转写连接异常'
ThrownSendError == "send exception"               \* the error ws.send threw

Min(a, b) == IF a < b THEN a ELSE b

----------------------------------------------------------------------------
(* Framer *)

RECURSIVE chunkLoop(_, _, _, _)
chunkLoop(byteLength, chunkBytes, offset, acc) ==
  IF offset < byteLength
    THEN chunkLoop(byteLength, chunkBytes, offset + chunkBytes,
                   Append(acc, [from |-> offset,
                                to |-> Min(offset + chunkBytes, byteLength)]))
    ELSE acc

\* variant: a last chunk shorter than chunkBytes is left out
chunkPCMDataDropsTail(byteLength, chunkBytes) ==
  chunkLoop(byteLength - (byteLength % chunkBytes), chunkBytes, 0, <<>>)

chunkPCMData(byteLength, chunkBytes) == chunkLoop(byteLength, chunkBytes, 0, <<>>)

\* an empty buffer, and one whose last chunk is short
PcmLengths == {0, PCM_CHUNK_BYTES * MaxChunks - PCM_CHUNK_BYTES \div 2}

----------------------------------------------------------------------------
(* Inbound frames *)

Cand(w) == [isString |-> TRUE, w |-> w]
NonStringCand == [isString |-> FALSE, w |-> <<>>]
Word(cands) == [cw |-> cands]
RtSeg(words) == [ws |-> words]

PayloadEmpty == <<>>
PayloadA == << RtSeg(<< Word(<< Cand(<<"a">>) >>) >>) >>
PayloadB == << RtSeg(<< Word(<< Cand(<<"b">>) >>) >>) >>
PayloadC == << RtSeg(<< Word(<< NonStringCand, Cand(<<"c">>) >>) >>) >>
PayloadDotA == << RtSeg(<< Word(<< Cand(<<".">>) >>) >>),
                  RtSeg(<< Word(<< Cand(<<"a">>) >>), Word(<<>>) >>) >>
PayloadHello == << RtSeg(<< Word(<< Cand(<<"h", "e">>) >>),
                            Word(<< Cand(<<"l", "l", "o">>) >>) >>) >>
Payloads == {PayloadEmpty, PayloadA, PayloadB, PayloadC, PayloadDotA, PayloadHello}

RECURSIVE joinCandidates(_, _)
joinCandidates(cw, k) ==
  IF k > Len(cw) THEN <<>>
  ELSE (IF cw[k].isString THEN cw[k].w ELSE <<>>) \o joinCandidates(cw, k + 1)

RECURSIVE joinWords(_, _)
joinWords(words, j) ==
  IF j > Len(words) THEN <<>>
  ELSE joinCandidates(words[j].cw, 1) \o joinWords(words, j + 1)

RECURSIVE joinRt(_, _)
joinRt(rt, i) ==
  IF i > Len(rt) THEN <<>>
  ELSE joinWords(rt[i].ws, 1) \o joinRt(rt, i + 1)

\* variant: the first element of rt is skipped
parseResultTextSkipsFirst(cn) == joinRt(cn, 2)

parseResultText(cn) == joinRt(cn, 1)

Frame(kind, action, msgType, resType, code, desc, dataDesc, ls, segId, cn) ==
  [kind |-> kind, action |-> action, msg_type |-> msgType, res_type |-> resType,
   code |-> code, desc |-> desc, data_desc |-> dataDesc, ls |-> ls,
   seg_id |-> segId, cn |-> cn]

Control(action, msgType, resType, code, desc, dataDesc) ==
  Frame("json", action, msgType, resType, code, desc, dataDesc, FALSE, NoSegId, PayloadEmpty)

BinaryFrame == Frame("binary", undefined, undefined, undefined, undefined,
                     undefined, undefined, FALSE, NoSegId, PayloadEmpty)
GarbageFrame == Frame("garbage", undefined, undefined, undefined, undefined,
                      undefined, undefined, FALSE, NoSegId, PayloadEmpty)

SegIds == 1..MaxSegId

Result(ls, segId, cn) ==
  Frame("json", undefined, "result", "asr", undefined, undefined, undefined, ls, segId, cn)

PayloadFor(segId) ==
  CASE segId % 3 = 1 -> PayloadA
    [] segId % 3 = 2 -> PayloadC
    [] OTHER -> PayloadB      \* 1: 'a', 2: 'c', 3: 'b'


\* recognition results: a final per segment index, a second final and a
\* provisional for segment 1, provisional and final results without an index,
\* a result that decodes to the empty text
ResultFrames ==
  { Result(TRUE, segId, PayloadFor(segId)) : segId \in SegIds }
    \cup { Result(TRUE, 1, PayloadDotA),
           Result(FALSE, 1, PayloadB),
           Result(FALSE, MaxSegId, PayloadDotA),
           Result(TRUE, NoSegId, PayloadA),
           Result(FALSE, NoSegId, PayloadDotA),
           Result(TRUE, 2, PayloadEmpty) }

ControlFrames ==
  { Control("started", undefined, undefined, undefined, undefined, undefined),
    Control(undefined, "started", undefined, undefined, undefined, undefined),
    Control("error", undefined, undefined, undefined, "d", "dd"),
    Control(undefined, "error", undefined, undefined, undefined, "dd"),
    Control("error", undefined, undefined, undefined, undefined, undefined),
    Control(undefined, undefined, "frc", undefined, "d", "dd"),
    Control(undefined, "result", "frc", undefined, undefined, undefined),
    Control(undefined, undefined, "frc", undefined, "d", undefined),
    Control("started", "error", undefined, undefined, "d", undefined),
    Control(undefined, undefined, undefined, undefined, undefined, undefined),
    Frame("json", "started", "result", "asr", undefined, undefined, undefined,
          TRUE, 1, PayloadA),
    Frame("json", "error", "result", "asr", undefined, "d", undefined,
          TRUE, 1, PayloadA) }

\* a final result for segment 0
HelloFrame == Result(TRUE, 0, PayloadHello)

StreamFrames ==
  {BinaryFrame, GarbageFrame, HelloFrame} \cup ControlFrames \cup ResultFrames

LiveControlFrames ==
  { Control("started", undefined, undefined, undefined, undefined, undefined),
    Control(undefined, undefined, undefined, "0", "success", undefined),
    Control("error", undefined, undefined, undefined, "d", "dd"),
    Control(undefined, undefined, undefined, "10110", undefined, "dd"),
    Control(undefined, undefined, undefined, "10110", "", undefined),
    Control(undefined, undefined, undefined, undefined, undefined, undefined),
    Frame("json", undefined, "result", "asr", "0", undefined, undefined,
          TRUE, 1, PayloadA),
    Frame("json", undefined, "result", "asr", "10110", "d", undefined,
          FALSE, 1, PayloadA) }

LiveFrames == {BinaryFrame, GarbageFrame} \cup LiveControlFrames \cup ResultFrames

----------------------------------------------------------------------------
(* The session state as one value, so that a handler is a function on it *)

State ==
  [ variant |-> variant, pc |-> pc, readyState |-> readyState,
    closeCalls |-> closeCalls, handlersSet |-> handlersSet,
    connectTimers |-> connectTimers, closeEventDue |-> closeEventDue,
    closed |-> closed, streamStarted |-> streamStarted,
    handshakeTimer |-> handshakeTimer,
    handshakePending |-> handshakePending, outcome |-> outcome,
    microtasks |-> microtasks, signal |-> signal,
    abortListener |-> abortListener, chunks |-> chunks,
    loopPc |-> loopPc, loopI |-> loopI, sent |-> sent,
    segments |-> segments, statusLog |-> statusLog,
    errorCount |-> errorCount, lastError |-> lastError,
    updateCount |-> updateCount, lastUpdate |-> lastUpdate,
    budget |-> budget, calls |-> calls, finals |-> finals, ws |-> ws,
    isActive |-> isActive, sessionId |-> sessionId,
    connUuid |-> connUuid, connPromise |-> connPromise,
    audioContext |-> audioContext, source |-> source,
    audioWorkletNode |-> audioWorkletNode,
    portHandlers |-> portHandlers, startPc |-> startPc,
    startConn |-> startConn, startUuid |-> startUuid,
    buffer |-> buffer, chunkSize |-> chunkSize, params |-> params,
    secret |-> secret, signature |-> signature, config |-> config,
    history |-> history, isProcessing |-> isProcessing,
    appPc |-> appPc, runs |-> runs, isGlobalActive |-> isGlobalActive,
    sessionsRef |-> sessionsRef, loopModel |-> loopModel,
    panelSessions |-> panelSessions ]

Becomes(s) ==
  /\ variant' = s.variant
  /\ pc' = s.pc
  /\ readyState' = s.readyState
  /\ closeCalls' = s.closeCalls
  /\ handlersSet' = s.handlersSet
  /\ connectTimers' = s.connectTimers
  /\ closeEventDue' = s.closeEventDue
  /\ closed' = s.closed
  /\ streamStarted' = s.streamStarted
  /\ handshakeTimer' = s.handshakeTimer
  /\ handshakePending' = s.handshakePending
  /\ outcome' = s.outcome
  /\ microtasks' = s.microtasks
  /\ signal' = s.signal
  /\ abortListener' = s.abortListener
  /\ chunks' = s.chunks
  /\ loopPc' = s.loopPc
  /\ loopI' = s.loopI
  /\ sent' = s.sent
  /\ segments' = s.segments
  /\ statusLog' = s.statusLog
  /\ errorCount' = s.errorCount
  /\ lastError' = s.lastError
  /\ updateCount' = s.updateCount
  /\ lastUpdate' = s.lastUpdate
  /\ budget' = s.budget
  /\ calls' = s.calls
  /\ finals' = s.finals
  /\ ws' = s.ws
  /\ isActive' = s.isActive
  /\ sessionId' = s.sessionId
  /\ connUuid' = s.connUuid
  /\ connPromise' = s.connPromise
  /\ audioContext' = s.audioContext
  /\ source' = s.source
  /\ audioWorkletNode' = s.audioWorkletNode
  /\ portHandlers' = s.portHandlers
  /\ startPc' = s.startPc
  /\ startConn' = s.startConn
  /\ startUuid' = s.startUuid
  /\ buffer' = s.buffer
  /\ chunkSize' = s.chunkSize
  /\ params' = s.params
  /\ secret' = s.secret
  /\ signature' = s.signature
  /\ config' = s.config
  /\ history' = s.history
  /\ isProcessing' = s.isProcessing
  /\ appPc' = s.appPc
  /\ runs' = s.runs
  /\ isGlobalActive' = s.isGlobalActive
  /\ sessionsRef' = s.sessionsRef
  /\ loopModel' = s.loopModel
  /\ panelSessions' = s.panelSessions

Is(s) ==
  /\ variant = s.variant
  /\ pc = s.pc
  /\ readyState = s.readyState
  /\ closeCalls = s.closeCalls
  /\ handlersSet = s.handlersSet
  /\ connectTimers = s.connectTimers
  /\ closeEventDue = s.closeEventDue
  /\ closed = s.closed
  /\ streamStarted = s.streamStarted
  /\ handshakeTimer = s.handshakeTimer
  /\ handshakePending = s.handshakePending
  /\ outcome = s.outcome
  /\ microtasks = s.microtasks
  /\ signal = s.signal
  /\ abortListener = s.abortListener
  /\ chunks = s.chunks
  /\ loopPc = s.loopPc
  /\ loopI = s.loopI
  /\ sent = s.sent
  /\ segments = s.segments
  /\ statusLog = s.statusLog
  /\ errorCount = s.errorCount
  /\ lastError = s.lastError
  /\ updateCount = s.updateCount
  /\ lastUpdate = s.lastUpdate
  /\ budget = s.budget
  /\ calls = s.calls
  /\ finals = s.finals
  /\ ws = s.ws
  /\ isActive = s.isActive
  /\ sessionId = s.sessionId
  /\ connUuid = s.connUuid
  /\ connPromise = s.connPromise
  /\ audioContext = s.audioContext
  /\ source = s.source
  /\ audioWorkletNode = s.audioWorkletNode
  /\ portHandlers = s.portHandlers
  /\ startPc = s.startPc
  /\ startConn = s.startConn
  /\ startUuid = s.startUuid
  /\ buffer = s.buffer
  /\ chunkSize = s.chunkSize
  /\ params = s.params
  /\ secret = s.secret
  /\ signature = s.signature
  /\ config = s.config
  /\ history = s.history
  /\ isProcessing = s.isProcessing
  /\ appPc = s.appPc
  /\ runs = s.runs
  /\ isGlobalActive = s.isGlobalActive
  /\ sessionsRef = s.sessionsRef
  /\ loopModel = s.loopModel
  /\ panelSessions = s.panelSessions

Pending == [state |-> "pending", text |-> <<>>, error |-> ""]
NoUpdate == [text |-> <<>>, isFinal |-> FALSE, segmentId |-> NoSegId]

\* history entry: a final result for segmentId decoded to text, kept as stored
Final(segmentId, text, stored) ==
  [segmentId |-> segmentId, text |-> text, stored |-> stored]

Reaction(kind, k) == [kind |-> kind, k |-> k]

----------------------------------------------------------------------------
(* Callbacks of the caller *)

onStatus(s, status) == [s EXCEPT !.statusLog = Append(@, status)]

onError(s, message) == [s EXCEPT !.errorCount = @ + 1, !.lastError = message]

onUpdate(s, text, isFinal, segmentId) ==
  [s EXCEPT !.updateCount = @ + 1,
            !.lastUpdate = [text |-> text, isFinal |-> isFinal,
                            segmentId |-> segmentId]]

----------------------------------------------------------------------------
(* WebSocket methods *)

wsClose(s, c) ==
  [s EXCEPT !.closeCalls[c] = @ + 1,
            !.readyState[c] = IF @ \in {"CONNECTING", "OPEN"} THEN "CLOSING" ELSE @]

\* send raises InvalidStateError while connecting; fail is a failure of the host
SendThrows(s, c, fail) == s.readyState[c] = "CONNECTING" \/ fail

wsSend(s, c, item) ==
  [s EXCEPT !.sent = Append(@, [conn |-> c, item |-> item,
                                readyState |-> s.readyState[c]])]

----------------------------------------------------------------------------
(* resultPromise *)

\* variant: a later trigger overwrites the settled outcome
SettleOverwrites(s, o) ==
  [s EXCEPT !.outcome = o,
            !.microtasks = IF s.handlersSet THEN Append(@, Reaction("finally", 0))
                                            ELSE @]

Settle(s, o) ==
  IF s.outcome.state = "pending"
    THEN [s EXCEPT !.outcome = o,
                   !.microtasks = IF s.handlersSet THEN Append(@, Reaction("finally", 0))
                                                     ELSE @]
    ELSE s

resolvePromise(s, text) == Settle(s, [state |-> "resolved", text |-> text, error |-> ""])

rejectPromise(s, error) == Settle(s, [state |-> "rejected", text |-> <<>>, error |-> error])

----------------------------------------------------------------------------
(* Segment map: Map.set keeps the position of an existing key *)

RECURSIVE mapHas(_, _)
mapHas(m, k) ==
  IF m = <<>> THEN FALSE
  ELSE IF Head(m)[1] = k THEN TRUE ELSE mapHas(Tail(m), k)

RECURSIVE mapReplace(_, _, _)
mapReplace(m, k, v) ==
  IF m = <<>> THEN <<>>
  ELSE << IF Head(m)[1] = k THEN <<k, v>> ELSE Head(m) >> \o mapReplace(Tail(m), k, v)

mapSet(m, k, v) == IF mapHas(m, k) THEN mapReplace(m, k, v) ELSE Append(m, <<k, v>>)

RECURSIVE insertByKey(_, _)
insertByKey(sorted, e) ==
  IF sorted = <<>> THEN << e >>
  ELSE IF e[1] - Head(sorted)[1] < 0 THEN << e >> \o sorted
  ELSE << Head(sorted) >> \o insertByKey(Tail(sorted), e)

RECURSIVE sortEntries(_)
sortEntries(entries) ==
  IF entries = <<>> THEN <<>>
  ELSE insertByKey(sortEntries(SubSeq(entries, 1, Len(entries) - 1)),
                   entries[Len(entries)])

RECURSIVE joinValues(_)
joinValues(entries) ==
  IF entries = <<>> THEN <<>> ELSE Head(entries)[2] \o joinValues(Tail(entries))

\* variant: the entries are joined in insertion order
aggregateUnsorted(m) == joinValues(m)

\* Array.from(segments.entries()).sort((a, b) => a[0] - b[0]).map(([, v]) => v).join('')
aggregate(m) == joinValues(sortEntries(m))

----------------------------------------------------------------------------
(* streamIflytekRealtime: helpers *)

cleanup(s) ==
  IF s.closed THEN s
  ELSE LET s1 == [s EXCEPT !.closed = TRUE]
           s2 == IF s1.handshakeTimer # undefined
                   THEN [s1 EXCEPT !.handshakePending = FALSE,
                                   !.handshakeTimer = undefined]
                   ELSE s1
       IN wsClose(s2, 1)

\* variant: the abort handler only rejects
abortHandlerRejectsOnly(s) == rejectPromise(s, MsgCancelled)

abortHandler(s) == cleanup(rejectPromise(s, MsgCancelled))

\* variant: the loop does not look at the closed flag
sendLoopIgnoresClosed(s, i, fail) ==
  IF i < Len(s.chunks)
    THEN [wsSend(s, 1, [kind |-> "chunk", index |-> i, bytes |-> s.chunks[i + 1],
                        sessionId |-> s.sessionId])
            EXCEPT !.loopPc = "await", !.loopI = i]
    ELSE [wsSend(s, 1, [kind |-> "end", index |-> Len(s.chunks),
                        bytes |-> [from |-> 0, to |-> 0],
                        sessionId |-> s.sessionId])
            EXCEPT !.loopPc = "returned"]

\* variant: the loop bound is off by one, the end marker replaces the last chunk
sendLoopEndsEarly(s, i, fail) ==
  IF s.closed THEN [s EXCEPT !.loopPc = "returned"]
  ELSE IF i + 1 < Len(s.chunks)
    THEN [wsSend(s, 1, [kind |-> "chunk", index |-> i, bytes |-> s.chunks[i + 1],
                        sessionId |-> s.sessionId])
            EXCEPT !.loopPc = "await", !.loopI = i]
    ELSE [wsSend(s, 1, [kind |-> "end", index |-> Len(s.chunks),
                        bytes |-> [from |-> 0, to |-> 0],
                        sessionId |-> s.sessionId])
            EXCEPT !.loopPc = "returned"]

\* variant: a loop that finds the session closed raises an error
sendLoopThrowsWhenClosed(s, i, fail) ==
  IF s.closed
    THEN [s EXCEPT !.loopPc = "returned",
                   !.microtasks = Append(@, Reaction("catch", 0))]
  ELSE IF i < Len(s.chunks)
    THEN [wsSend(s, 1, [kind |-> "chunk", index |-> i, bytes |-> s.chunks[i + 1],
                        sessionId |-> s.sessionId])
            EXCEPT !.loopPc = "await", !.loopI = i]
    ELSE [wsSend(s, 1, [kind |-> "end", index |-> Len(s.chunks),
                        bytes |-> [from |-> 0, to |-> 0],
                        sessionId |-> s.sessionId])
            EXCEPT !.loopPc = "returned"]

\* the body of the async pacing function from chunk index i (0-based) up to
\* its next suspension or its end
sendLoop(s, i, fail) ==
  IF i < Len(s.chunks)
    THEN IF s.closed
           THEN [s EXCEPT !.loopPc = "returned"]
           ELSE IF SendThrows(s, 1, fail)
                  THEN [s EXCEPT !.loopPc = "returned",
                                 !.microtasks = Append(@, Reaction("catch", 0))]
                  ELSE [wsSend(s, 1, [kind |-> "chunk", index |-> i,
                                      bytes |-> s.chunks[i + 1],
                                      sessionId |-> s.sessionId])
                          EXCEPT !.loopPc = "await", !.loopI = i]
    ELSE IF ~s.closed
           THEN IF SendThrows(s, 1, fail)
                  THEN [s EXCEPT !.loopPc = "returned",
                                 !.microtasks = Append(@, Reaction("catch", 0))]
                  ELSE [wsSend(s, 1, [kind |-> "end", index |-> Len(s.chunks),
                                      bytes |-> [from |-> 0, to |-> 0],
                                      sessionId |-> s.sessionId])
                          EXCEPT !.loopPc = "returned"]
           ELSE [s EXCEPT !.loopPc = "returned"]

\* variant: a send failure is reported and rejects, the connection is left open
sendFailedKeepsOpen(s) == rejectPromise(onError(s, MsgSendFailed), ThrownSendError)

sendFailed(s) == cleanup(rejectPromise(onError(s, MsgSendFailed), ThrownSendError))

\* variant: streaming starts without cancelling the handshake timer
beginStreamingKeepsTimer(s, fail) ==
  IF s.streamStarted \/ s.closed THEN s
  ELSE sendLoop(onStatus([s EXCEPT !.streamStarted = TRUE], "streaming"), 0, fail)

\* variant: streaming starts although the session is closed
beginStreamingIgnoresClosed(s, fail) ==
  IF s.streamStarted THEN s
  ELSE LET s1 == [s EXCEPT !.streamStarted = TRUE]
           s2 == IF s1.handshakeTimer # undefined
                   THEN [s1 EXCEPT !.handshakePending = FALSE,
                                   !.handshakeTimer = undefined]
                   ELSE s1
       IN sendLoop(onStatus(s2, "streaming"), 0, fail)

beginStreaming(s, fail) ==
  IF s.streamStarted \/ s.closed THEN s
  ELSE LET s1 == [s EXCEPT !.streamStarted = TRUE]
           s2 == IF s1.handshakeTimer # undefined
                   THEN [s1 EXCEPT !.handshakePending = FALSE,
                                   !.handshakeTimer = undefined]
                   ELSE s1
       IN sendLoop(onStatus(s2, "streaming"), 0, fail)

connectionTimeout(s) ==
  IF s.readyState[1] = "CONNECTING"
    THEN rejectPromise(onError(wsClose(s, 1), MsgConnectTimeout), MsgConnectTimeout)
    ELSE s

----------------------------------------------------------------------------
(* streamIflytekRealtime: WebSocket handlers *)

onopen(s, fail) ==
  IF s.variant = "file"
    THEN [s EXCEPT !.handshakeTimer = "set", !.handshakePending = TRUE]
    ELSE sendLoop(onStatus(s, "streaming"), 0, fail)

Coalesce(a, b) == IF a # undefined THEN a ELSE b

serverError(s, m) ==
  LET message == Coalesce(m.desc, Coalesce(m.data_desc, MsgServerError))
  IN cleanup(rejectPromise(onError(s, message), message))

frcError(s, m) ==
  LET message == Coalesce(m.data_desc, MsgFrcFailed)
  IN cleanup(rejectPromise(onError(s, message), message))

\* variant: a final result resolves and reports the end but leaves the socket open
finishLeavesOpen(s, text) == onStatus(resolvePromise(s, text), "ended")

finish(s, text) == cleanup(onStatus(resolvePromise(s, text), "ended"))

asrResult(s, m) ==
  LET text == parseResultText(m.cn)
      isFinal == m.ls
      segmentId == m.seg_id
  IN IF segmentId # NoSegId
       THEN LET s1 == [s EXCEPT !.segments = mapSet(@, segmentId, text),
                                !.finals = IF isFinal
                                             THEN @ \cup {Final(segmentId, text, text)}
                                             ELSE @]
                aggregated == aggregate(s1.segments)
                s2 == onUpdate(s1, aggregated, isFinal, segmentId)
            IN IF isFinal THEN finish(s2, aggregated) ELSE s2
       ELSE LET s2 == onUpdate(s, text, isFinal, segmentId)
            IN IF isFinal THEN finish(s2, text) ELSE s2

onmessage(s, m, fail) ==
  IF m.kind = "binary" THEN s
  ELSE IF m.kind = "garbage" THEN onError(s, MsgParseFailed)
  ELSE IF ~s.streamStarted /\ (m.action = "started" \/ m.msg_type = "started")
    THEN beginStreaming(s, fail)
  ELSE IF m.action = "error" \/ m.msg_type = "error" THEN serverError(s, m)
  ELSE IF m.res_type = "frc" THEN frcError(s, m)
  ELSE IF m.msg_type = "result" /\ m.res_type = "asr" THEN asrResult(s, m)
  ELSE s

legacyAsrResult(s, m) ==
  LET text == parseResultText(m.cn)
      s1 == IF m.seg_id # NoSegId
              THEN [s EXCEPT !.segments = mapSet(@, m.seg_id, text),
                             !.finals = IF m.ls
                                          THEN @ \cup {Final(m.seg_id, text, text)}
                                          ELSE @]
              ELSE s
      aggregated == aggregate(s1.segments)
      isFinal == m.ls
      s2 == onUpdate(s1, aggregated, isFinal, m.seg_id)
  IN IF isFinal THEN finish(s2, aggregated) ELSE s2

legacyOnmessage(s, m) ==
  IF m.kind = "binary" THEN s
  ELSE IF m.kind = "garbage" THEN onError(s, MsgParseFailed)
  ELSE IF m.action = "error" \/ m.msg_type = "error" THEN serverError(s, m)
  ELSE IF m.res_type = "frc" THEN frcError(s, m)
  ELSE IF m.msg_type = "result" /\ m.res_type = "asr" THEN legacyAsrResult(s, m)
  ELSE s

onerror(s) ==
  cleanup(rejectPromise(onError(s, MsgConnectionError), MsgConnectionError))

\* variant: a close without a result is reported as a failure
oncloseFails(s) ==
  IF ~s.closed
    THEN rejectPromise(onError(onStatus([s EXCEPT !.closed = TRUE], "ended"),
                               MsgConnectionError), MsgConnectionError)
    ELSE s

onclose(s) ==
  IF ~s.closed THEN onStatus([s EXCEPT !.closed = TRUE], "ended") ELSE s

finally(s) == [cleanup(s) EXCEPT !.abortListener = FALSE]

----------------------------------------------------------------------------
(* Initial state and the steps of a file-streaming session *)

Blank(v) ==
  [ variant |-> v, pc |-> "init", readyState |-> <<>>,
    closeCalls |-> <<>>, handlersSet |-> FALSE, connectTimers |-> {},
    closeEventDue |-> 0, closed |-> FALSE, streamStarted |-> FALSE,
    handshakeTimer |-> undefined, handshakePending |-> FALSE,
    outcome |-> Pending, microtasks |-> <<>>, signal |-> "none",
    abortListener |-> FALSE, chunks |-> <<>>, loopPc |-> "none",
    loopI |-> 0, sent |-> <<>>, segments |-> <<>>, statusLog |-> <<>>,
    errorCount |-> 0, lastError |-> "", updateCount |-> 0,
    lastUpdate |-> NoUpdate, budget |-> MaxMessages, calls |-> 0,
    finals |-> {}, ws |-> 0, isActive |-> FALSE, sessionId |-> 0,
    connUuid |-> <<>>, connPromise |-> <<>>, audioContext |-> FALSE,
    source |-> FALSE, audioWorkletNode |-> FALSE, portHandlers |-> 0,
    startPc |-> <<>>, startConn |-> <<>>, startUuid |-> <<>>,
    buffer |-> 0, chunkSize |-> 0, params |-> <<>>, secret |-> "",
    signature |-> <<>>, config |-> NoConfig, history |-> <<>>,
    isProcessing |-> FALSE, appPc |-> "idle", runs |-> 0,
    isGlobalActive |-> FALSE, sessionsRef |-> <<>>, loopModel |-> 0,
    panelSessions |-> <<>> ]

IsStream == variant \in {"file", "legacy"}

\* no promise reaction is queued and no event of the current task is outstanding
Idle == microtasks = <<>> /\ closeEventDue = 0

\* variant: 'connecting' is reported before the signal is looked at
streamIflytekRealtimeAnnouncesFirst(s, byteLength, sig) ==
  LET s0 == [onStatus(s, "connecting")
               EXCEPT !.pc = "running",
                      !.readyState = <<"CONNECTING">>,
                      !.closeCalls = <<0>>,
                      !.sessionId = 1,
                      !.connUuid = <<1>>,
                      !.connectTimers = IF s.variant = "file" THEN {1} ELSE {},
                      !.chunks = chunkPCMData(byteLength, PCM_CHUNK_BYTES),
                      !.signal = sig]
  IN IF sig = "aborted"
       THEN abortHandler(s0)
       ELSE [s0 EXCEPT !.abortListener = (sig = "armed"), !.handlersSet = TRUE]

streamIflytekRealtime(s, byteLength, sig) ==
  LET s0 == [s EXCEPT !.pc = "running",
                      !.readyState = <<"CONNECTING">>,
                      !.closeCalls = <<0>>,
                      !.sessionId = 1,
                      !.connUuid = <<1>>,
                      !.connectTimers = IF s.variant = "file" THEN {1} ELSE {},
                      !.chunks = chunkPCMData(byteLength, PCM_CHUNK_BYTES),
                      !.signal = sig]
  IN IF sig = "aborted"
       THEN abortHandler(s0)
       ELSE [onStatus(s0, "connecting") EXCEPT !.abortListener = (sig = "armed"),
                                               !.handlersSet = TRUE]

StartSession ==
  /\ IsStream /\ pc = "init"
  /\ \E byteLength \in PcmLengths, sig \in {"none", "armed", "aborted"} :
       Becomes(streamIflytekRealtime(State, byteLength, sig))

ConnectionTimeout ==
  /\ IsStream /\ Idle /\ 1 \in connectTimers
  /\ Becomes(connectionTimeout([State EXCEPT !.connectTimers = @ \ {1}]))

WsOpen ==
  /\ IsStream /\ Idle /\ pc = "running" /\ readyState[1] = "CONNECTING"
  /\ \E fail \in BOOLEAN :
       LET s == [State EXCEPT !.readyState[1] = "OPEN"]
       IN Becomes(IF s.handlersSet THEN onopen(s, fail) ELSE s)

HandshakeTimeout ==
  /\ IsStream /\ Idle /\ handshakePending
  /\ \E fail \in BOOLEAN :
       Becomes(beginStreaming([State EXCEPT !.handshakePending = FALSE], fail))

PacingDelay ==
  /\ IsStream /\ Idle /\ loopPc = "await"
  /\ \E fail \in BOOLEAN : Becomes(sendLoop(State, loopI + 1, fail))

WsMessage ==
  /\ IsStream /\ Idle /\ pc = "running" /\ readyState[1] = "OPEN" /\ budget > 0
  /\ \E m \in StreamFrames, fail \in BOOLEAN :
       LET s == [State EXCEPT !.budget = @ - 1]
       IN Becomes(IF ~s.handlersSet THEN s
                  ELSE IF s.variant = "file" THEN onmessage(s, m, fail)
                  ELSE legacyOnmessage(s, m))

\* the connection fails: the error event, and the close event after it
WsError ==
  /\ IsStream /\ Idle /\ pc = "running"
  /\ readyState[1] \in {"CONNECTING", "OPEN", "CLOSING"}
  /\ LET s == [State EXCEPT !.readyState[1] = "CLOSED", !.closeEventDue = 1]
     IN Becomes(IF s.handlersSet THEN onerror(s) ELSE s)

\* the close event: after an error event, or when the closing handshake ends
WsClose ==
  /\ IsStream /\ pc = "running" /\ microtasks = <<>>
  /\ \/ closeEventDue = 1
     \/ closeEventDue = 0 /\ readyState[1] \in {"OPEN", "CLOSING"}
  /\ LET s == [State EXCEPT !.readyState[1] = "CLOSED", !.closeEventDue = 0]
     IN Becomes(IF s.handlersSet THEN onclose(s) ELSE s)

Abort ==
  /\ IsStream /\ Idle /\ signal = "armed"
  /\ LET s == [State EXCEPT !.signal = "aborted", !.abortListener = FALSE]
     IN Becomes(IF abortListener THEN abortHandler(s) ELSE s)

PromiseFinally ==
  /\ IsStream /\ microtasks # <<>> /\ Head(microtasks).kind = "finally"
  /\ Becomes(finally([State EXCEPT !.microtasks = Tail(@)]))

SendCatch ==
  /\ IsStream /\ microtasks # <<>> /\ Head(microtasks).kind = "catch"
  /\ Becomes(sendFailed([State EXCEPT !.microtasks = Tail(@)]))

StreamInit == \E v \in {"file", "legacy"} : Is(Blank(v))

StreamNext ==
  \/ StartSession
  \/ ConnectionTimeout
  \/ WsOpen
  \/ HandshakeTimeout
  \/ PacingDelay
  \/ WsMessage
  \/ WsError
  \/ WsClose
  \/ Abort
  \/ PromiseFinally
  \/ SendCatch

SpecStream == StreamInit /\ [][StreamNext]_vars

\* the close event of a connection that failed or on which close() was called
WsCloseDue ==
  /\ pc = "running"
  /\ closeEventDue = 1 \/ readyState[1] = "CLOSING"
  /\ WsClose

\* what the host guarantees: armed timers fire, queued promise reactions
\* run, and a failed or closing connection gets its close event.  Nothing is
\* assumed of the server, the network or the caller.
StreamFairness ==
  /\ WF_vars(ConnectionTimeout)
  /\ WF_vars(HandshakeTimeout)
  /\ WF_vars(PacingDelay)
  /\ WF_vars(PromiseFinally)
  /\ WF_vars(SendCatch)
  /\ WF_vars(WsCloseDue)

SpecStreamFair == StreamInit /\ [][StreamNext]_vars /\ StreamFairness

----------------------------------------------------------------------------
(* createLiveTranscriptionSession *)

MsgConnectFailed == "connection failed"                  \* '连接失败'
MsgMicDenied == "microphone access denied"               \* '麦克风访问被拒绝，...'
MsgMicNotFound == "no microphone found"                  \* '未找到麦克风设备'
MsgMicFailed == "microphone access failed"               \* '麦克风访问失败: ...'
MsgMicUnavailable == "cannot access microphone"          \* '无法访问麦克风'

LiveFallback(code) ==
  IF code = undefined THEN "server returned error (code: undefined)"
  ELSE IF code = "" THEN "server returned error (code: )"
  ELSE "server returned error (code: 10110)"

Truthy(x) == x # undefined /\ x # ""

\* the characters of /^[。，、；：！？\.,;:!?]+/ that occur in the payloads
Punctuation == {".", ",", ";", ":", "!", "?"}

RECURSIVE stripLeading(_)
stripLeading(text) ==
  IF text # <<>> /\ Head(text) \in Punctuation THEN stripLeading(Tail(text)) ELSE text

liveCleanup(s) ==
  LET s1 == [s EXCEPT !.isActive = FALSE, !.streamStarted = FALSE,
                      !.segments = <<>>, !.finals = {},
                      !.audioWorkletNode = FALSE, !.source = FALSE,
                      !.audioContext = FALSE]
  IN IF s1.ws # 0 /\ s1.readyState[s1.ws] # "CLOSED"
       THEN [wsClose(s1, s1.ws) EXCEPT !.ws = 0]
       ELSE s1

\* start() up to its first suspension, inside generateSignature
start(s) ==
  IF s.isActive THEN s
  ELSE LET k == Len(s.startPc) + 1
           s1 == [s EXCEPT !.isActive = TRUE, !.segments = <<>>, !.finals = {}]
           s2 == onStatus(s1, "connecting")
       IN [s2 EXCEPT !.sessionId = k,
                     !.startPc = Append(@, "signing"),
                     !.startConn = Append(@, 0),
                     !.startUuid = Append(@, k)]

\* connectWebSocket after the signature: the WebSocket and its connect timer
connectWebSocket(s, k) ==
  LET c == Len(s.readyState) + 1
  IN [s EXCEPT !.readyState = Append(@, "CONNECTING"),
               !.closeCalls = Append(@, 0),
               !.connUuid = Append(@, s.startUuid[k]),
               !.connPromise = Append(@, "pending"),
               !.ws = c,
               !.connectTimers = @ \cup {c},
               !.startPc[k] = "connecting",
               !.startConn[k] = c]

StartOf(s, c) == CHOOSE k \in 1..Len(s.startConn) : s.startConn[k] = c

\* resolve() / reject() of the promise connectWebSocket returned for c
settleConnect(s, c, result) ==
  IF s.connPromise[c] = "pending"
    THEN [s EXCEPT !.connPromise[c] = result,
                   !.microtasks = Append(@, Reaction(result, StartOf(s, c)))]
    ELSE s

liveOnopen(s, c) ==
  LET s1 == onStatus(s, "connected")
      s2 == [s1 EXCEPT !.streamStarted = TRUE]
  IN settleConnect(onStatus(s2, "streaming"), c, "resolved")

liveServerError(s, m) ==
  LET message == IF Truthy(m.desc) THEN m.desc
                 ELSE IF Truthy(m.data_desc) THEN m.data_desc
                 ELSE LiveFallback(m.code)
  IN liveCleanup(onError(s, message))

liveAsrResult(s, m) ==
  LET text == parseResultText(m.cn)
      isFinal == m.ls
      segmentId == m.seg_id
      cleanedText == stripLeading(text)
  IN IF text = <<>> THEN s
     ELSE IF segmentId # NoSegId
       THEN IF isFinal
              THEN LET s1 == [s EXCEPT
                                !.segments = mapSet(@, segmentId, cleanedText),
                                !.finals = @ \cup {Final(segmentId, text, cleanedText)}]
                   IN onUpdate(s1, aggregate(s1.segments), isFinal, segmentId)
              ELSE onUpdate(s, aggregate(s.segments) \o cleanedText, isFinal, segmentId)
       ELSE onUpdate(s, cleanedText, isFinal, segmentId)

liveOnmessage(s, m) ==
  IF m.kind = "binary" THEN s
  ELSE IF m.kind = "garbage" THEN s
  ELSE IF m.action = "started" \/ m.code = "0" \/ m.desc = "success"
    THEN onStatus([s EXCEPT !.streamStarted = TRUE], "streaming")
  ELSE IF m.action = "error" \/ (Truthy(m.code) /\ m.code # "0")
    THEN liveServerError(s, m)
  ELSE IF m.msg_type = "result" /\ m.res_type = "asr" THEN liveAsrResult(s, m)
  ELSE s

liveOnerror(s, c) ==
  liveCleanup(settleConnect(onError(s, MsgConnectFailed), c, "rejected"))

liveOnclose(s) ==
  IF s.isActive THEN liveCleanup(onStatus(s, "ended")) ELSE s

\* the timer reads the session's ws variable, whichever connection armed it
liveConnectTimeout(s, c) ==
  IF s.ws # 0 /\ s.readyState[s.ws] = "CONNECTING"
    THEN settleConnect(wsClose(s, s.ws), c, "rejected")
    ELSE s

\* catch block of start(): cleanup(), then the error is thrown to the caller
startFailed(s, k) == [liveCleanup(s) EXCEPT !.startPc[k] = "thrown"]

\* catch block of startAudioCapture, then that of start()
captureFailed(s, k, message) == startFailed(onError(s, message), k)

microphoneResult(s, k, r) ==
  CASE r = "running" -> [s EXCEPT !.audioContext = TRUE, !.startPc[k] = "addModule"]
    [] r = "suspended" -> [s EXCEPT !.audioContext = TRUE, !.startPc[k] = "resume"]
    [] r = "NotAllowedError" -> captureFailed(s, k, MsgMicDenied)
    [] r = "NotFoundError" -> captureFailed(s, k, MsgMicNotFound)
    [] r = "DOMException" -> captureFailed(s, k, MsgMicFailed)
    [] OTHER -> captureFailed(s, k, MsgMicUnavailable)

\* after await audioContext.resume(): audioContext.audioWorklet is read next,
\* and raises a TypeError when cleanup() has set audioContext to null
contextResumed(s, k) ==
  IF s.audioContext THEN [s EXCEPT !.startPc[k] = "addModule"]
  ELSE captureFailed(s, k, MsgMicUnavailable)

moduleLoaded(s, k, ok) ==
  IF ok /\ s.audioContext
    THEN [s EXCEPT !.source = TRUE, !.audioWorkletNode = TRUE,
                   !.portHandlers = @ + 1, !.startPc[k] = "done"]
    ELSE captureFailed(s, k, MsgMicUnavailable)

AudioItem(s) ==
  [kind |-> "audio", index |-> 0, bytes |-> [from |-> 0, to |-> PCM_CHUNK_BYTES * 2],
   sessionId |-> s.sessionId]

EndItem(s) ==
  [kind |-> "end", index |-> 0, bytes |-> [from |-> 0, to |-> 0],
   sessionId |-> s.sessionId]

portOnmessage(s, type) ==
  IF ~s.streamStarted \/ s.ws = 0 THEN s
  ELSE IF s.readyState[s.ws] # "OPEN" THEN s
  ELSE IF type = "audioData" THEN wsSend(s, s.ws, AudioItem(s))
  ELSE s

stop(s) ==
  LET s1 == IF s.ws # 0
              THEN IF s.readyState[s.ws] = "OPEN" THEN wsSend(s, s.ws, EndItem(s)) ELSE s
              ELSE s
  IN liveCleanup(onStatus(s1, "ended"))

----------------------------------------------------------------------------
(* Steps of a live session *)

IsLive == variant = "live"

LiveStart ==
  /\ IsLive /\ Idle /\ calls > 0
  /\ isActive \/ Len(startPc) < MaxStarts
  /\ Becomes(start([State EXCEPT !.calls = @ - 1]))

LiveSigned ==
  /\ IsLive /\ Idle
  /\ \E k \in 1..Len(startPc) :
       /\ startPc[k] = "signing"
       /\ Becomes(connectWebSocket(State, k))

LiveOpen ==
  /\ IsLive /\ Idle
  /\ \E c \in 1..Len(readyState) :
       /\ readyState[c] = "CONNECTING"
       /\ Becomes(liveOnopen([State EXCEPT !.readyState[c] = "OPEN"], c))

LiveMessage ==
  /\ IsLive /\ Idle /\ budget > 0
  /\ \E c \in 1..Len(readyState), m \in LiveFrames :
       /\ readyState[c] = "OPEN"
       /\ Becomes(liveOnmessage([State EXCEPT !.budget = @ - 1], m))

LiveError ==
  /\ IsLive /\ Idle
  /\ \E c \in 1..Len(readyState) :
       /\ readyState[c] \in {"CONNECTING", "OPEN", "CLOSING"}
       /\ Becomes(liveOnerror([State EXCEPT !.readyState[c] = "CLOSED",
                                            !.closeEventDue = c], c))

LiveClose ==
  /\ IsLive /\ microtasks = <<>>
  /\ \E c \in 1..Len(readyState) :
       /\ \/ closeEventDue = c
          \/ closeEventDue = 0 /\ readyState[c] \in {"OPEN", "CLOSING"}
       /\ Becomes(liveOnclose([State EXCEPT !.readyState[c] = "CLOSED",
                                            !.closeEventDue = 0]))

LiveConnectTimeout ==
  /\ IsLive /\ Idle
  /\ \E c \in connectTimers :
       Becomes(liveConnectTimeout([State EXCEPT !.connectTimers = @ \ {c}], c))

\* await connectWebSocket() returns: startAudioCapture calls getUserMedia
LiveConnected ==
  /\ IsLive /\ microtasks # <<>> /\ Head(microtasks).kind = "resolved"
  /\ Becomes([State EXCEPT !.microtasks = Tail(@),
                           !.startPc[Head(microtasks).k] = "getUserMedia"])

\* await connectWebSocket() throws
LiveConnectFailed ==
  /\ IsLive /\ microtasks # <<>> /\ Head(microtasks).kind = "rejected"
  /\ Becomes(startFailed([State EXCEPT !.microtasks = Tail(@)], Head(microtasks).k))

LiveMicrophone ==
  /\ IsLive /\ Idle
  /\ \E k \in 1..Len(startPc) :
       /\ startPc[k] = "getUserMedia"
       /\ \E r \in {"running", "suspended", "NotAllowedError", "NotFoundError",
                    "DOMException", "Error"} :
            Becomes(microphoneResult(State, k, r))

LiveResumed ==
  /\ IsLive /\ Idle
  /\ \E k \in 1..Len(startPc) :
       /\ startPc[k] = "resume"
       /\ Becomes(contextResumed(State, k))

LiveModuleLoaded ==
  /\ IsLive /\ Idle
  /\ \E k \in 1..Len(startPc) :
       /\ startPc[k] = "addModule"
       /\ \E ok \in BOOLEAN : Becomes(moduleLoaded(State, k, ok))

LiveAudioFrame ==
  /\ IsLive /\ Idle /\ portHandlers > 0 /\ budget > 0
  /\ \E type \in {"audioData", "other"} :
       Becomes(portOnmessage([State EXCEPT !.budget = @ - 1], type))

LiveStop ==
  /\ IsLive /\ Idle /\ calls > 0
  /\ Becomes(stop([State EXCEPT !.calls = @ - 1]))

\* a live session sees either one start() and several frames, or several
\* calls and one frame
LiveProfiles ==
  { [calls |-> 1, frames |-> MaxLiveFrames], [calls |-> MaxLiveCalls, frames |-> 1] }

LiveInit ==
  \E p \in LiveProfiles :
    Is([Blank("live") EXCEPT !.calls = p.calls, !.budget = p.frames])

LiveNext ==
  \/ LiveStart
  \/ LiveSigned
  \/ LiveOpen
  \/ LiveMessage
  \/ LiveError
  \/ LiveClose
  \/ LiveConnectTimeout
  \/ LiveConnected
  \/ LiveConnectFailed
  \/ LiveMicrophone
  \/ LiveResumed
  \/ LiveModuleLoaded
  \/ LiveAudioFrame
  \/ LiveStop

SpecLive == LiveInit /\ [][LiveNext]_vars

\* a live session that is started, stopped and started again, and sees one frame
RestartInit == Is([Blank("live") EXCEPT !.calls = MaxRestartCalls, !.budget = 1])

SpecRestart == RestartInit /\ [][LiveNext]_vars

\* a live session that is started and stopped twice while the server sends
\* nothing and no audio is captured
QuietInit == Is([Blank("live") EXCEPT !.calls = MaxQuietCalls, !.budget = 0])

QuietNext ==
  \/ LiveStart
  \/ LiveSigned
  \/ LiveOpen
  \/ LiveError
  \/ LiveClose
  \/ LiveConnectTimeout
  \/ LiveConnected
  \/ LiveConnectFailed
  \/ LiveMicrophone
  \/ LiveResumed
  \/ LiveModuleLoaded
  \/ LiveStop

SpecQuiet == QuietInit /\ [][QuietNext]_vars

\* a behaviour runs one session of any of the three implementations
Init == StreamInit \/ LiveInit

Next == StreamNext \/ LiveNext

Spec == Init /\ [][Next]_vars

----------------------------------------------------------------------------
(* The framer on its own: chunkPCMData applied to any buffer and chunk size *)

FramerInit ==
  \E n \in 0..MaxBytes, c \in 1..MaxChunkBytes :
    Is([Blank("framer") EXCEPT !.pc = "call", !.buffer = n, !.chunkSize = c])

FramerCall ==
  /\ variant = "framer" /\ pc = "call"
  /\ Becomes([State EXCEPT !.chunks = chunkPCMData(buffer, chunkSize),
                           !.pc = "returned"])

FramerNext == FramerCall

SpecFramer == FramerInit /\ [][FramerNext]_vars

----------------------------------------------------------------------------
(* generateSignature.  Strings are sequences of UTF-16 code units. *)

KeyAppId == <<97, 112, 112, 73, 100>>                          \* 'appId'
KeyUtc == <<117, 116, 99>>                                     \* 'utc'
KeyUuid == <<117, 117, 105, 100>>                              \* 'uuid'
KeySignature == <<115, 105, 103, 110, 97, 116, 117, 114, 101>> \* 'signature'

ParamKeys == {KeyAppId, KeyUtc, KeyUuid, KeySignature}

\* '1' and '+:'
ParamValues == { <<49>>, <<43, 58>> }

Secrets == {"secret1", "secret2"}

\* objects with string keys: their entries <<key, value>> in insertion order
ParamMappings ==
  { ps \in UNION { [1..n -> ParamKeys \X ParamValues] : n \in 0..MaxParams } :
      \A i, j \in 1..Len(ps) : ps[i][1] = ps[j][1] => i = j }

\* a < b as Array.prototype.sort compares strings: by code unit, a proper
\* prefix first
RECURSIVE StringLess(_, _)
StringLess(a, b) ==
  IF b = <<>> THEN FALSE
  ELSE IF a = <<>> THEN TRUE
  ELSE IF Head(a) # Head(b) THEN Head(a) < Head(b)
  ELSE StringLess(Tail(a), Tail(b))

RECURSIVE insertKey(_, _)
insertKey(sorted, key) ==
  IF sorted = <<>> THEN << key >>
  ELSE IF StringLess(key, Head(sorted)) THEN << key >> \o sorted
  ELSE << Head(sorted) >> \o insertKey(Tail(sorted), key)

RECURSIVE sortKeys(_)
sortKeys(keys) ==
  IF keys = <<>> THEN <<>>
  ELSE insertKey(sortKeys(SubSeq(keys, 1, Len(keys) - 1)), keys[Len(keys)])

objectKeys(ps) == [i \in 1..Len(ps) |-> ps[i][1]]

valueOf(ps, key) == (CHOOSE i \in 1..Len(ps) : ps[i][1] = key)

\* Object.keys(params).filter(key => key !== 'signature').sort(); the
\* implementation of unnamed/part_000 has no filter
sortedKeys(v, ps) ==
  sortKeys(IF v = "legacy" THEN objectKeys(ps)
           ELSE SelectSeq(objectKeys(ps), LAMBDA key : key # KeySignature))

\* A-Z a-z 0-9 - _ . ! ~ * ' ( )
Unreserved ==
  (65..90) \cup (97..122) \cup (48..57) \cup {45, 95, 46, 33, 126, 42, 39, 40, 41}

HexDigit(d) == IF d < 10 THEN 48 + d ELSE 55 + d

RECURSIVE encodeURIComponent(_)
encodeURIComponent(text) ==
  IF text = <<>> THEN <<>>
  ELSE (IF Head(text) \in Unreserved THEN << Head(text) >>
        ELSE << 37, HexDigit(Head(text) \div 16), HexDigit(Head(text) % 16) >>)
       \o encodeURIComponent(Tail(text))

RECURSIVE joinPairs(_, _, _)
joinPairs(ps, keys, k) ==
  IF k > Len(keys) THEN <<>>
  ELSE (IF k > 1 THEN << 38 >> ELSE <<>>)
       \o encodeURIComponent(keys[k]) \o << 61 >>
       \o encodeURIComponent(ps[valueOf(ps, keys[k])][2])
       \o joinPairs(ps, keys, k + 1)

baseString(v, ps) == joinPairs(ps, sortedKeys(v, ps), 1)

\* btoa of the HMAC-SHA1 of the message under the key: a value determined by
\* the two, different for different keys or messages
HmacSha1Base64(key, message) == [hmac |-> "SHA-1", key |-> key, message |-> message]

generateSignature(v, ps, key) == HmacSha1Base64(key, baseString(v, ps))

SigningInit ==
  \E v \in {"file", "legacy", "live"}, ps \in ParamMappings, key \in Secrets :
    Is([Blank(v) EXCEPT !.pc = "sign", !.params = ps, !.secret = key])

SigningCall ==
  /\ pc = "sign"
  /\ Becomes([State EXCEPT !.signature = generateSignature(variant, params, secret),
                           !.pc = "signed"])

SigningNext == SigningCall

SpecSigning == SigningInit /\ [][SigningNext]_vars

----------------------------------------------------------------------------
(* The connection parameters: the params object before it is signed *)

AudioEncodings == {undefined, "pcm_s16le", "speex-7", "speex-10", "opus-wb"}

SampleRates == {NoSampleRate, 8000, 16000}

Languages == {undefined, "autodialect", "en"}

Configs ==
  { [NoConfig EXCEPT !.audioEncode = e, !.sampleRate = r, !.defaultLang = l] :
      e \in AudioEncodings, r \in SampleRates, l \in Languages }

\* String(n) of a non-negative integer: its decimal digits as code units
RECURSIVE toDecimal(_)
toDecimal(n) ==
  IF n < 10 THEN << 48 + n >> ELSE Append(toDecimal(n \div 10), 48 + (n % 10))

\* String(config.sampleRate ?? 16000)
samplerateOf(c) == toDecimal(IF c.sampleRate # NoSampleRate THEN c.sampleRate ELSE 16000)

\* the params object of variant v, its entries in insertion order; the live
\* session puts samplerate in the object literal, the others add it after a
\* test of the encoding
connectionParams(v, c, uuid) ==
  LET base == << <<"accessKeyId", c.accessKeyId>>,
                 <<"appId", c.appId>>,
                 <<"uuid", uuid>>,
                 <<"utc", "utc">>,
                 <<"lang", Coalesce(c.defaultLang, "autodialect")>>,
                 <<"audio_encode", Coalesce(c.audioEncode, "pcm_s16le")>> >>
  IN IF v = "live" THEN Append(base, <<"samplerate", samplerateOf(c)>>)
     ELSE IF Coalesce(c.audioEncode, "pcm_s16le") = "pcm_s16le"
       THEN Append(base, <<"samplerate", samplerateOf(c)>>)
       ELSE base

ParamsInit ==
  \E v \in {"file", "legacy", "live"}, c \in Configs :
    Is([Blank(v) EXCEPT !.pc = "params", !.config = c])

ParamsCall ==
  /\ pc = "params"
  /\ Becomes([State EXCEPT !.params = connectionParams(variant, config, 1),
                           !.sessionId = 1,
                           !.pc = "built"])

ParamsNext == ParamsCall

SpecParams == ParamsInit /\ [][ParamsNext]_vars

----------------------------------------------------------------------------
(* LiveTranscriptionPanel: one live session per model, started one after the
   other.  Of a session the panel uses start(), stop() and isActive(); a
   session is kept here as its isActive flag and the state of its start(). *)

Models == 1..MaxModels

\* the session a model is registered under in sessionsRef, 0 for none
NoSessions == [m \in Models |-> 0]

\* one turn of the for loop up to its await: the session of model m is
\* created and registered, and its start() sets isActive and suspends
loopBody(s, m) ==
  LET session == [model |-> m, isActive |-> TRUE, startPc |-> "pending"]
  IN [s EXCEPT !.panelSessions = Append(@, session),
               !.sessionsRef[m] = Len(s.panelSessions) + 1,
               !.loopModel = m]

startLiveTranscription(s) ==
  IF s.isGlobalActive THEN s
  ELSE loopBody([s EXCEPT !.isGlobalActive = TRUE], 1)

\* session.start() of the session the loop awaits returns (ok) or throws
\* after its cleanup(); the loop goes on to the next model or ends
startSettled(s, ok) ==
  LET k == Len(s.panelSessions)
      s1 == [s EXCEPT !.panelSessions[k] =
                        [@ EXCEPT !.startPc = IF ok THEN "done" ELSE "thrown",
                                  !.isActive = IF ok THEN @ ELSE FALSE]]
  IN IF s.loopModel < MaxModels
       THEN loopBody(s1, s.loopModel + 1)
       ELSE [s1 EXCEPT !.loopModel = 0]

\* stop() of a session: cleanup() clears isActive
sessionStop(session) == [session EXCEPT !.isActive = FALSE]

stopLiveTranscription(s) ==
  LET registered == {s.sessionsRef[m] : m \in Models} \ {0}
  IN [s EXCEPT !.isGlobalActive = FALSE,
               !.panelSessions =
                  [k \in DOMAIN @ |->
                     IF k \in registered /\ @[k].isActive
                       THEN sessionStop(@[k]) ELSE @[k]],
               !.sessionsRef = NoSessions]

IsPanel == variant = "panel"

\* the button is disabled while isGlobalActive; one loop runs at a time
StartLiveTranscription ==
  /\ IsPanel /\ loopModel = 0
  /\ Len(panelSessions) < MaxPanelStarts * MaxModels
  /\ Becomes(startLiveTranscription(State))

StartSettled ==
  /\ IsPanel /\ loopModel # 0
  /\ \E ok \in BOOLEAN : Becomes(startSettled(State, ok))

\* the button is disabled unless isGlobalActive
StopLiveTranscription ==
  /\ IsPanel /\ isGlobalActive
  /\ Becomes(stopLiveTranscription(State))

\* a started session ends by itself: a server error, a transport error or
\* the close of its connection runs its cleanup()
SessionEnds ==
  /\ IsPanel
  /\ \E k \in 1..Len(panelSessions) :
       /\ panelSessions[k].isActive /\ panelSessions[k].startPc = "done"
       /\ Becomes([State EXCEPT !.panelSessions[k] = sessionStop(@)])

PanelInit == Is([Blank("panel") EXCEPT !.sessionsRef = NoSessions])

PanelNext ==
  \/ StartLiveTranscription
  \/ StartSettled
  \/ StopLiveTranscription
  \/ SessionEnds

SpecPanel == PanelInit /\ [][PanelNext]_vars

----------------------------------------------------------------------------
(* App: handleTranscribe and handleCancel around the file-streaming session
   of one model; one run of handleTranscribe at a time *)

HISTORY_KEPT == 19

\* the history the application has stored before: items 1..n, oldest first
OldItems(n) == [i \in 1..n |-> i]

HistoryLengths == {0, 1, HISTORY_KEPT, HISTORY_KEPT + 1}

\* crypto.randomUUID() of the item of a run
NewItem(run) == HISTORY_KEPT + 1 + run

\* prev.slice(-n)
sliceLast(prev, n) ==
  IF Len(prev) <= n THEN prev ELSE SubSeq(prev, Len(prev) - n + 1, Len(prev))

\* handleTranscribe up to await preparePcmBuffer(); what the previous run
\* left of its session is no longer looked at
handleTranscribe(s) ==
  [Blank("file") EXCEPT !.history = s.history,
                        !.runs = s.runs + 1,
                        !.isProcessing = TRUE,
                        !.appPc = "preparing"]

\* finally { setIsProcessing(false); abortControllerRef.current = null; ... }
transcribeFinally(s) == [s EXCEPT !.isProcessing = FALSE, !.appPc = "idle"]

\* preparePcmBuffer() returned: the controller is created and the task of
\* the model runs into streamIflytekRealtime, up to its await of the
\* signature; or it threw
prepared(s, ok) ==
  IF ok THEN [s EXCEPT !.appPc = "tasks", !.signal = "armed"]
  ELSE transcribeFinally(s)

\* after await Promise.allSettled(tasks): transcriptsMap holds the model's
\* text when its task resolved
allSettled(s) ==
  LET appended ==
        IF s.signal = "aborted" THEN s.history
        ELSE IF s.outcome.state = "resolved"
          THEN Append(sliceLast(s.history, HISTORY_KEPT), NewItem(s.runs))
          ELSE s.history
  IN transcribeFinally([s EXCEPT !.history = appended])

\* abortControllerRef.current?.abort(); setIsProcessing(false)
handleCancel(s) ==
  LET s1 == [s EXCEPT !.isProcessing = FALSE]
  IN IF s.appPc = "tasks" /\ s.signal = "armed"
       THEN LET s2 == [s1 EXCEPT !.signal = "aborted", !.abortListener = FALSE]
            IN IF s.abortListener THEN abortHandler(s2) ELSE s2
       ELSE s1

\* the task of the model has settled and its continuation is due
TasksSettled ==
  appPc = "tasks" /\ pc = "running" /\ outcome.state # "pending" /\ Idle

HandleTranscribe ==
  /\ IsStream /\ Idle /\ appPc = "idle" /\ runs < MaxRuns
  /\ Becomes(handleTranscribe(State))

Prepared ==
  /\ IsStream /\ appPc = "preparing"
  /\ \E ok \in BOOLEAN : Becomes(prepared(State, ok))

\* generateSignature returned: the rest of streamIflytekRealtime
TaskSigned ==
  /\ IsStream /\ appPc = "tasks" /\ pc = "init"
  /\ \E byteLength \in PcmLengths :
       Becomes(streamIflytekRealtime(State, byteLength, signal))

\* the cancel button is enabled while isProcessing
HandleCancel ==
  /\ IsStream /\ Idle /\ isProcessing /\ ~TasksSettled
  /\ Becomes(handleCancel(State))

AllSettled ==
  /\ IsStream /\ TasksSettled
  /\ Becomes(allSettled(State))

TranscribeInit ==
  \E n \in HistoryLengths : Is([Blank("file") EXCEPT !.history = OldItems(n)])

TranscribeNext ==
  \/ HandleTranscribe
  \/ Prepared
  \/ TaskSigned
  \/ HandleCancel
  \/ AllSettled
  \/ ConnectionTimeout
  \/ WsOpen
  \/ HandshakeTimeout
  \/ PacingDelay
  \/ WsMessage
  \/ WsError
  \/ WsClose
  \/ PromiseFinally
  \/ SendCatch

SpecTranscribe == TranscribeInit /\ [][TranscribeNext]_vars

\* the host also completes the audio conversion and the signature and runs
\* the continuation of settled tasks
TranscribeFairness ==
  /\ StreamFairness
  /\ WF_vars(Prepared)
  /\ WF_vars(TaskSigned)
  /\ WF_vars(AllSettled)

SpecTranscribeFair == TranscribeInit /\ [][TranscribeNext]_vars /\ TranscribeFairness

----------------------------------------------------------------------------
(* Properties of the file-streaming session *)

Count(seq, x) == Cardinality({k \in 1..Len(seq) : seq[k] = x})

ConnectionShut == readyState[1] \in {"CLOSING", "CLOSED"}

\* C1: the outcome is settled at most once: whichever of a final result, a
\* server error, a transport error, the connect timeout, a send failure and
\* the abort signal runs first fixes it, and every later trigger leaves its
\* state, value and error unchanged.
C1_SettledOnce == [][outcome.state # "pending" => outcome' = outcome]_vars

\* a final result resolved the outcome, a transport error followed, and the
\* outcome still carries the final result
C1_Witness ==
  /\ IsStream
  /\ outcome.state = "resolved"
  /\ lastError = MsgConnectionError

\* C2: every failure path ends with the outcome rejected, the connection
\* closed, and onError invoked exactly once over the whole session.
C2_FailureReportedOnce ==
  (IsStream /\ handlersSet /\ outcome.state = "rejected" /\ microtasks = <<>>)
    => (errorCount = 1 /\ ConnectionShut)

\* C3: when the abort signal fires while the outcome is pending, that step
\* rejects the outcome with the cancellation error and closes the connection,
\* and once the signal has fired nothing more is sent.
C3_AbortStops ==
  [][ /\ (signal = "armed" /\ signal' = "aborted" /\ outcome.state = "pending")
         => /\ outcome'.state = "rejected"
            /\ outcome'.error = MsgCancelled
            /\ closed'
            /\ readyState'[1] \in {"CLOSING", "CLOSED"}
      /\ (signal = "aborted" => sent' = sent) ]_vars

\* the signal fired part-way through the chunk sequence and the loop stopped
C3_Witness ==
  /\ IsStream
  /\ signal = "aborted"
  /\ outcome.error = MsgCancelled
  /\ loopPc = "returned"
  /\ Len(sent) > 0 /\ Len(sent) < Len(chunks)

\* C4: whatever teardown triggers occur, close() is called at most once on
\* the connection, 'ended' is emitted at most once, and once the session is
\* torn down no trigger invokes onError again.
C4_TeardownOnce ==
  [][ IsStream' =>
        /\ \A c \in 1..Len(closeCalls') : closeCalls'[c] <= 1
        /\ Count(statusLog', "ended") <= 1
        /\ (closed /\ errorCount >= 1 => errorCount' = errorCount) ]_vars

\* C5: when the connect timer fires on a connection that is still connecting,
\* onError is invoked exactly once in the session, the outcome is rejected and
\* nothing is ever sent.
C5_ConnectTimeout ==
  (IsStream /\ outcome.error = MsgConnectTimeout)
    => (errorCount = 1 /\ outcome.state = "rejected" /\ sent = <<>>)

\* C6: once the closed flag is set, the pacing loop sends no further chunk
\* and no end marker.
C6_NoSendAfterClosed == [][closed => sent' = sent]_vars

\* the loop woke from a pacing delay, found the flag set and returned with
\* chunks left unsent
C6_Witness ==
  /\ IsStream
  /\ closed
  /\ loopPc = "returned"
  /\ errorCount = 0
  /\ Len(sent) > 0 /\ Len(sent) < Len(chunks)

\* C7: chunks are sent in the order chunkPCMData produced them, each at most
\* once and none skipped, and the end marker is sent at most once and only
\* after every chunk.
C7_ChunkOrder ==
  IsStream =>
    /\ Len(sent) <= Len(chunks) + 1
    /\ \A k \in 1..Len(sent) :
         IF k <= Len(chunks)
           THEN /\ sent[k].item.kind = "chunk"
                /\ sent[k].item.index = k - 1
                /\ sent[k].item.bytes = chunks[k]
           ELSE sent[k].item.kind = "end"

\* every chunk of a multi-chunk buffer and then the end marker went out
C7_Witness ==
  /\ IsStream
  /\ Len(chunks) >= 2
  /\ Len(sent) = Len(chunks) + 1

\* C8: the audio loop is started at most once per session (status
\* 'streaming' at most once), only by the 'started' message or the handshake
\* timer, and once streaming has started the handshake timer is cancelled.
C8_SingleStart ==
  [][ variant' = "file" =>
        /\ Count(statusLog', "streaming") <= 1
        /\ (streamStarted' => ~handshakePending' /\ handshakeTimer' = undefined)
        /\ (streamStarted => streamStarted' /\ loopPc' # "none")
        /\ (~streamStarted /\ streamStarted'
              => /\ readyState[1] = "OPEN"
                 /\ handshakeTimer = "set"
                 /\ (handshakePending' # handshakePending \/ budget' # budget)) ]_vars

\* the 'started' message began streaming while the handshake timer was armed
C8_Witness ==
  /\ variant = "file"
  /\ streamStarted
  /\ budget = MaxMessages - 1
  /\ Count(statusLog, "streaming") = 1
  /\ updateCount = 0 /\ errorCount = 0
  /\ loopPc = "await" /\ loopI = 0

----------------------------------------------------------------------------
(* Properties of the segment aggregation, in every session *)

FinalIndices(F) == {f.segmentId : f \in F}

DistinctIndices(F) == \A f, g \in F : f.segmentId = g.segmentId => f = g

MapIndices(m) == {m[k][1] : k \in 1..Len(m)}

\* the texts of a set of <<index, text>> pairs, joined in ascending index order
RECURSIVE AscendingConcat(_)
AscendingConcat(P) ==
  IF P = {} THEN <<>>
  ELSE LET p == CHOOSE x \in P : \A y \in P : x[1] <= y[1]
       IN p[2] \o AscendingConcat(P \ {p})

RawTexts(F) == { <<f.segmentId, f.text>> : f \in F }

\* the texts as the session keeps them: the live session removes a leading
\* run of punctuation
KeptTexts(F) ==
  { <<f.segmentId, IF variant = "live" THEN stripLeading(f.text) ELSE f.text>> : f \in F }

\* an update was reported in this step for a final result with a segment
\* index, and so far only final results with distinct indices were stored
FinalsOnlyUpdate ==
  /\ updateCount' = updateCount + 1
  /\ lastUpdate'.isFinal /\ lastUpdate'.segmentId # NoSegId
  /\ DistinctIndices(finals')
  /\ MapIndices(segments') \subseteq FinalIndices(finals')

ExampleArrival == << <<3, <<"b">> >>, <<1, <<"a">> >>, <<2, <<"c">> >> >>

\* C9 as stated: after final results with distinct indices, in any arrival
\* order, the reported transcript is the concatenation of their texts in
\* ascending index order; finals 3:'b', 1:'a', 2:'c' in that order give 'abc'.
C9_AscendingOrderAsStated ==
  [][ /\ FinalsOnlyUpdate => lastUpdate'.text = AscendingConcat(RawTexts(finals'))
      /\ (FinalsOnlyUpdate /\ segments' = ExampleArrival)
            => lastUpdate'.text = <<"a", "b", "c">> ]_vars

\* C9 amended: the reported transcript is the concatenation, in ascending
\* index order, of the texts as kept (in the live session without their
\* leading punctuation); finals 3:'b', 1:'a', 2:'c' in that order give 'acb'.
C9_AscendingOrder ==
  [][ /\ FinalsOnlyUpdate => lastUpdate'.text = AscendingConcat(KeptTexts(finals'))
      /\ (FinalsOnlyUpdate /\ segments' = ExampleArrival)
            => lastUpdate'.text = <<"a", "c", "b">> ]_vars

\* the finals 3:'b', 1:'a', 2:'c' arrived in that order and 'acb' was reported
C9_Witness ==
  /\ segments = ExampleArrival
  /\ finals = {Final(3, <<"b">>, <<"b">>), Final(1, <<"a">>, <<"a">>),
               Final(2, <<"c">>, <<"c">>)}
  /\ updateCount = 3
  /\ lastUpdate = [text |-> <<"a", "c", "b">>, isFinal |-> TRUE, segmentId |-> 2]

\* C10: the segment map holds only texts of results that were flagged final:
\* a provisional result with a segment index never writes to it.
C10_OnlyFinalsStored ==
  \A k \in 1..Len(segments) :
    \E f \in finals : f.segmentId = segments[k][1] /\ f.stored = segments[k][2]

----------------------------------------------------------------------------
(* Steps seen from outside: which frame a step delivered *)

\* this step is the message handler of a file-streaming session receiving m
StreamReceived(m) ==
  /\ IsStream /\ Idle /\ pc = "running" /\ readyState[1] = "OPEN" /\ budget > 0
  /\ handlersSet
  /\ \E fail \in BOOLEAN :
       LET s == [State EXCEPT !.budget = @ - 1]
       IN Becomes(IF s.variant = "file" THEN onmessage(s, m, fail)
                  ELSE legacyOnmessage(s, m))

\* this step is the message handler of a live session receiving m
LiveReceived(m) ==
  /\ IsLive /\ Idle /\ budget > 0
  /\ \E c \in 1..Len(readyState) : readyState[c] = "OPEN"
  /\ Becomes(liveOnmessage([State EXCEPT !.budget = @ - 1], m))

Received(m) == StreamReceived(m) \/ LiveReceived(m)

RECURSIVE mapGet(_, _)
mapGet(m, k) ==
  IF m = <<>> THEN <<>>
  ELSE IF Head(m)[1] = k THEN Head(m)[2] ELSE mapGet(Tail(m), k)

\* the text as the session keeps it: the live session removes leading punctuation
Kept(text) == IF variant = "live" THEN stripLeading(text) ELSE text

FinalsWithIndex == {m \in ResultFrames : m.ls /\ m.seg_id # NoSegId}

\* C11: when a final result for segment k is received, the segment map holds
\* for k exactly the text of that final result (as the session keeps it):
\* whatever a provisional or earlier final result left there is overwritten,
\* so transcripts built from the map carry the final text at k's position.
C11_FinalOverwrites ==
  [][ \A m \in FinalsWithIndex :
        Received(m) => mapGet(segments', m.seg_id) = Kept(parseResultText(m.cn)) ]_vars

ResultsWithoutIndex == {m \in ResultFrames : m.seg_id = NoSegId}

\* C12: a recognition result without a numeric segment index is reported with
\* exactly its own decoded text (as the session keeps it), the segment map is
\* left as it was, and when the result is final a file-streaming session with
\* a pending outcome resolves with that same text.
C12_NoIndexReportedAlone ==
  [][ \A m \in ResultsWithoutIndex :
        Received(m) =>
          LET text == Kept(parseResultText(m.cn))
          IN /\ updateCount' = updateCount + 1
             /\ lastUpdate' = [text |-> text, isFinal |-> m.ls, segmentId |-> NoSegId]
             /\ segments' = segments
             /\ (IsStream /\ m.ls /\ outcome.state = "pending")
                  => outcome' = [state |-> "resolved", text |-> text, error |-> ""] ]_vars

FinalResults == {m \in ResultFrames : m.ls}

\* C13: when a file-streaming session whose outcome is pending and which is
\* not closed receives a final recognition result, that step reports one
\* update with isFinal true, resolves the outcome with the text the update
\* carried, emits status 'ended' and calls close() on the connection.
C13_FinalCompletes ==
  [][ \A m \in FinalResults :
        (StreamReceived(m) /\ outcome.state = "pending" /\ ~closed) =>
          /\ updateCount' = updateCount + 1
          /\ lastUpdate'.isFinal
          /\ outcome' = [state |-> "resolved", text |-> lastUpdate'.text, error |-> ""]
          /\ statusLog' = Append(statusLog, "ended")
          /\ closed'
          /\ closeCalls'[1] = closeCalls[1] + 1
          /\ readyState'[1] = "CLOSING" ]_vars

\* a provisional and then a final result arrived; the session resolved with
\* the non-empty transcript of the final update and is closing
C13_Witness ==
  /\ variant = "file"
  /\ updateCount = 2
  /\ lastUpdate.isFinal /\ lastUpdate.text # <<>>
  /\ outcome = [state |-> "resolved", text |-> lastUpdate.text, error |-> ""]
  /\ statusLog = <<"connecting", "ended">>
  /\ closed /\ readyState[1] = "CLOSING"

\* the close event of an open connection arrives without an error event
\* before it: the peer closed
PeerClose ==
  /\ IsStream /\ handlersSet
  /\ closeEventDue = 0 /\ closeEventDue' = 0
  /\ readyState[1] = "OPEN" /\ readyState'[1] = "CLOSED"

\* C14: when the peer closes the connection of a session whose outcome is
\* pending and which is not closed, that step emits status 'ended', the only
\* 'ended' of the session, does not invoke onError and leaves the outcome
\* pending; no session emits 'ended' twice.
C14_PeerCloseIsCleanEnd ==
  [][ /\ (PeerClose /\ outcome.state = "pending" /\ ~closed) =>
           /\ statusLog' = Append(statusLog, "ended")
           /\ Count(statusLog', "ended") = 1
           /\ errorCount' = errorCount
           /\ outcome' = outcome
           /\ closed'
      /\ IsStream' => Count(statusLog', "ended") <= 1 ]_vars

\* the peer closed while audio was being streamed: no error, no result
C14_Witness ==
  /\ IsStream
  /\ statusLog = <<"connecting", "streaming", "ended">>
  /\ readyState[1] = "CLOSED" /\ closeCalls[1] = 0
  /\ closed /\ outcome.state = "pending"
  /\ errorCount = 0 /\ updateCount = 0
  /\ Len(sent) > 0

StatusRank(status) ==
  CASE status = "connecting" -> 1
    [] status = "streaming" -> 2
    [] status = "ended" -> 3
    [] OTHER -> 0

\* log is a subsequence of connecting, streaming, ended
InStatusOrder(log) ==
  /\ \A i \in 1..Len(log) : StatusRank(log[i]) > 0
  /\ \A i, j \in 1..Len(log) : i < j => StatusRank(log[i]) < StatusRank(log[j])

\* C15: the statuses of a file-streaming session are a subsequence of
\* connecting, streaming, ended, each at most once, and once the outcome is
\* settled or the closed flag is set no step delivers an onStatus or onUpdate
\* callback.
C15_StatusOrder ==
  [][ IsStream' =>
        /\ InStatusOrder(statusLog')
        /\ (outcome.state # "pending" \/ closed) =>
              /\ statusLog' = statusLog
              /\ updateCount' = updateCount
              /\ lastUpdate' = lastUpdate ]_vars

\* a server error ended a session that was streaming; the pacing loop woke
\* up and the close event arrived afterwards, and no status followed
C15_Witness ==
  /\ IsStream
  /\ outcome.state = "rejected" /\ errorCount = 1
  /\ statusLog = <<"connecting", "streaming">>
  /\ readyState[1] = "CLOSED"
  /\ loopPc = "returned" /\ Len(sent) > 0 /\ Len(sent) < Len(chunks)
  /\ microtasks = <<>>

\* C16: a text frame that fails to parse is reported through onError once and
\* changes nothing else: the outcome, the connection, the closed flag, the
\* pacing loop, the segment map and the activity of the session stay as they
\* were, in the file-streaming sessions and in the live session.
C16_ParseFailureReported ==
  [][ Received(GarbageFrame) =>
        /\ errorCount' = errorCount + 1
        /\ outcome' = outcome
        /\ readyState' = readyState /\ closeCalls' = closeCalls
        /\ closed' = closed /\ isActive' = isActive
        /\ loopPc' = loopPc /\ sent' = sent
        /\ segments' = segments ]_vars

----------------------------------------------------------------------------
(* Properties of the framer *)

\* the bytes of buffer.slice(from, to), each byte named by its position
SliceBytes(chunk) == [i \in 1..(chunk.to - chunk.from) |-> chunk.from + i - 1]

RECURSIVE ConcatBytes(_)
ConcatBytes(cs) ==
  IF cs = <<>> THEN <<>> ELSE SliceBytes(Head(cs)) \o ConcatBytes(Tail(cs))

CeilDiv(a, b) == (a + b - 1) \div b

\* C17: for every buffer length and every positive chunk size chunkPCMData
\* returns slices whose concatenation is the buffer, byte for byte; there are
\* ceil(length / chunkSize) of them, every one but the last has chunkSize
\* bytes, the last has between 1 and chunkSize, an empty buffer gives none.
C17_FramerPartitions ==
  (variant = "framer" /\ pc = "returned") =>
    /\ ConcatBytes(chunks) = [i \in 1..buffer |-> i - 1]
    /\ Len(chunks) = CeilDiv(buffer, chunkSize)
    /\ \A k \in 1..Len(chunks) :
         /\ k < Len(chunks) => Len(SliceBytes(chunks[k])) = chunkSize
         /\ Len(SliceBytes(chunks[k])) \in 1..chunkSize
    /\ (buffer = 0 => chunks = <<>>)

\* a buffer was cut into at least three chunks, the last of them short
C17_Witness ==
  /\ variant = "framer" /\ pc = "returned"
  /\ Len(chunks) >= 3
  /\ Len(SliceBytes(chunks[Len(chunks)])) < chunkSize

----------------------------------------------------------------------------
(* A file-streaming session from end to end *)

ChunkSizes(cs) == [k \in 1..Len(cs) |-> cs[k].to - cs[k].from]

\* what went out on the socket: the kind and the size of every item
SentShape(items) ==
  [k \in 1..Len(items) |->
     [kind |-> items[k].item.kind,
      size |-> items[k].item.bytes.to - items[k].item.bytes.from]]

ExampleSent ==
  << [kind |-> "chunk", size |-> 1280], [kind |-> "chunk", size |-> 1280],
     [kind |-> "chunk", size |-> 640], [kind |-> "end", size |-> 0] >>

HelloUpdate == [text |-> <<"h", "e", "l", "l", "o">>, isFinal |-> TRUE, segmentId |-> 0]

\* C18: a session given a 3200-byte buffer has chunks of 1280, 1280 and 640
\* bytes; when its loop has run through, exactly these and then the end
\* marker were sent; a final result for segment 0 with text 'hello' received
\* after that, as the first result, gives one onUpdate with text 'hello',
\* isFinal true, segmentId 0, and resolves the outcome with 'hello'.
C18_EndToEnd ==
  [][ (IsStream /\ chunks = chunkPCMData(3200, PCM_CHUNK_BYTES)) =>
        /\ ChunkSizes(chunks) = <<1280, 1280, 640>>
        /\ Len(sent') = Len(chunks) + 1 => SentShape(sent') = ExampleSent
        /\ ( /\ StreamReceived(HelloFrame)
             /\ SentShape(sent) = ExampleSent
             /\ segments = <<>> /\ updateCount = 0
             /\ outcome.state = "pending" )
             => /\ updateCount' = 1
                /\ lastUpdate' = HelloUpdate
                /\ outcome' = [state |-> "resolved", text |-> HelloUpdate.text,
                               error |-> ""] ]_vars

\* the three chunks and the end marker went out, 'hello' came back
C18_Witness ==
  /\ variant = "file"
  /\ SentShape(sent) = ExampleSent
  /\ updateCount = 1 /\ lastUpdate = HelloUpdate
  /\ outcome = [state |-> "resolved", text |-> HelloUpdate.text, error |-> ""]
  /\ errorCount = 0

----------------------------------------------------------------------------
(* Properties of generateSignature *)

\* the key/value pairs of a params object other than the 'signature' entry
SignedPairs(ps) == { ps[i] : i \in {j \in 1..Len(ps) : ps[j][1] # KeySignature} }

\* the pairs joined in ascending key order
RECURSIVE AscendingBase(_)
AscendingBase(P) ==
  IF P = {} THEN <<>>
  ELSE LET pr == CHOOSE x \in P : \A y \in P : y = x \/ StringLess(x[1], y[1])
           rest == AscendingBase(P \ {pr})
       IN encodeURIComponent(pr[1]) \o << 61 >> \o encodeURIComponent(pr[2])
          \o (IF rest = <<>> THEN <<>> ELSE << 38 >> \o rest)

\* C19: the signature depends only on the secret and on the pairs other
\* than 'signature': the base string is these pairs in ascending key order
\* joined by '&', and every params object with the same such pairs, in any
\* insertion order, with or without a 'signature' entry of any value, gives
\* the same base string and the same signature.
C19_SignatureOfPairs ==
  pc = "signed" =>
    /\ signature = HmacSha1Base64(secret, AscendingBase(SignedPairs(params)))
    /\ \A ps \in ParamMappings :
         SignedPairs(ps) = SignedPairs(params) =>
           /\ baseString(variant, ps) = baseString(variant, params)
           /\ generateSignature(variant, ps, secret) = signature

----------------------------------------------------------------------------
(* Progress of the file-streaming session *)

\* C20: once the connection of a started session has closed, for whatever
\* reason, the outcome is eventually resolved or rejected.
C20_EventuallySettled ==
  (IsStream /\ handlersSet /\ readyState[1] = "CLOSED")
    ~> (outcome.state # "pending")

----------------------------------------------------------------------------
(* Failures and teardown of the file-streaming session *)

\* this step is the pacing loop of a file-streaming session resuming after
\* its 40 ms delay
PacingResumed ==
  /\ IsStream /\ Idle /\ loopPc = "await"
  /\ \E fail \in BOOLEAN : Becomes(sendLoop(State, loopI + 1, fail))

\* C21: when the pacing loop resumes in a session that was torn down while
\* chunks were still to be sent, it sends neither a chunk nor the end marker
\* and returns without an error: onError is not invoked, the outcome is not
\* changed and no failure handler is queued.
C21_TeardownSkipsRest ==
  [][ (PacingResumed /\ closed) =>
        /\ sent' = sent
        /\ loopPc' = "returned"
        /\ errorCount' = errorCount /\ lastError' = lastError
        /\ outcome' = outcome
        /\ microtasks' = microtasks ]_vars

\* a final result ended the session after the first chunk; the loop woke up,
\* skipped the remaining chunks and the end marker, and no error was reported
C21_Witness ==
  /\ IsStream
  /\ closed /\ outcome.state = "resolved"
  /\ loopPc = "returned"
  /\ Len(sent) = 1 /\ Len(chunks) >= 2
  /\ errorCount = 0
  /\ microtasks = <<>>

\* this step is the failure handler of the pacing loop: a send has thrown
SendFailureHandled ==
  /\ IsStream /\ microtasks # <<>> /\ Head(microtasks).kind = "catch"
  /\ Becomes(sendFailed([State EXCEPT !.microtasks = Tail(@)]))

\* C22: when sending a chunk or the end marker has thrown, the failure
\* handler invokes onError with the send-failure message, which was not
\* reported before in the session, rejects the outcome with the error that
\* was thrown, sets closed and calls close() on the connection; that step and
\* every step after it sends nothing.
C22_SendFailure ==
  [][ /\ SendFailureHandled =>
           /\ lastError # MsgSendFailed
           /\ errorCount' = errorCount + 1
           /\ lastError' = MsgSendFailed
           /\ outcome' = [state |-> "rejected", text |-> <<>>, error |-> ThrownSendError]
           /\ closed'
           /\ closeCalls'[1] = closeCalls[1] + 1
           /\ readyState'[1] = "CLOSING"
           /\ sent' = sent
      /\ (IsStream /\ lastError = MsgSendFailed) => sent' = sent ]_vars

\* the second chunk could not be sent: the failure was reported, the outcome
\* carries the thrown error, the connection is closing and the loop stopped
C22_Witness ==
  /\ IsStream
  /\ lastError = MsgSendFailed /\ errorCount = 1
  /\ outcome = [state |-> "rejected", text |-> <<>>, error |-> ThrownSendError]
  /\ closed /\ readyState[1] = "CLOSING" /\ closeCalls[1] = 1
  /\ loopPc = "returned"
  /\ Len(sent) = 1 /\ Len(chunks) >= 2

\* frames the server tagged as an error or as a failed transcription
ErrorFrames ==
  {m \in StreamFrames : m.kind = "json" /\ (m.action = "error" \/ m.msg_type = "error"
                                              \/ m.res_type = "frc")}

\* the descriptions a frame carries: desc and data.desc
Descriptions(m) == {m.desc, m.data_desc} \ {undefined}

\* C23: a message whose action or msg_type is 'error', or whose res_type is
\* 'frc', fails the session in the step that receives it: onError is invoked
\* once with a description the message carries, or with a generic fallback
\* message when it carries none, the outcome is rejected with that same text,
\* and the message is not processed as a recognition result or otherwise (no
\* update, no status, no change of the segment map, nothing sent).
C23_ServerErrorFails ==
  [][ \A m \in ErrorFrames :
        StreamReceived(m) =>
          /\ errorCount' = errorCount + 1
          /\ lastError' \in (IF Descriptions(m) # {} THEN Descriptions(m)
                             ELSE {MsgServerError, MsgFrcFailed})
          /\ outcome' = [state |-> "rejected", text |-> <<>>, error |-> lastError']
          /\ closed'
          /\ updateCount' = updateCount /\ segments' = segments
          /\ statusLog' = statusLog /\ sent' = sent ]_vars

----------------------------------------------------------------------------
(* Properties of the live session *)

\* this step handed an item of the given kind to ws.send
Sends(kind) == Len(sent') = Len(sent) + 1 /\ sent'[Len(sent')].item.kind = kind

\* C24: a captured audio frame is forwarded only while streamStarted is set
\* and the session's connection is open, and while the session is inactive
\* (after stop() or any other teardown, until the next start()) no audio frame
\* and no end marker is sent on any connection.
C24_NoLateSends ==
  [][ IsLive =>
        /\ Sends("audio") =>
             /\ streamStarted /\ ws # 0
             /\ sent'[Len(sent')].conn = ws
             /\ sent'[Len(sent')].readyState = "OPEN"
        /\ (~isActive /\ calls' = calls) => sent' = sent ]_vars

\* this step is a call of stop()
StopCalled ==
  /\ IsLive /\ Idle /\ calls > 0
  /\ Becomes(stop([State EXCEPT !.calls = @ - 1]))

\* the statuses emitted since the latest start() began connecting
RECURSIVE SinceStart(_)
SinceStart(log) ==
  IF log = <<>> THEN <<>>
  ELSE IF log[Len(log)] = "connecting" THEN <<>>
  ELSE Append(SinceStart(SubSeq(log, 1, Len(log) - 1)), log[Len(log)])

EndMarkers(c) ==
  Cardinality({k \in 1..Len(sent) : sent[k].conn = c /\ sent[k].item.kind = "end"})

\* C25: when stop() is called on an inactive session (a second stop() in a
\* row, a session that never started, a session torn down after an error),
\* then since the latest start() 'ended' was emitted at most once, and every
\* connection got at most one end marker and at most one close() call.
C25_StopIsIdempotent ==
  [][ (StopCalled /\ ~isActive) =>
        /\ Count(SinceStart(statusLog'), "ended") <= 1
        /\ \A c \in 1..Len(closeCalls') : closeCalls'[c] <= 1 /\ EndMarkers(c)' <= 1 ]_vars

LiveRank(status) ==
  CASE status = "connecting" -> 1
    [] status = "connected" -> 2
    [] status = "streaming" -> 3
    [] OTHER -> 0

\* the statuses of the latest session before its 'ended'
BeforeEnded(log) == SelectSeq(SinceStart(log), LAMBDA status : status # "ended")

\* log holds connected and streaming in that order, each at most once
InLiveOrder(log) ==
  /\ \A i \in 1..Len(log) : LiveRank(log[i]) > 1
  /\ \A i, j \in 1..Len(log) : i < j => LiveRank(log[i]) < LiveRank(log[j])

\* 'ended' was the latest status, or an error was reported, and the session
\* is inactive
TornDown ==
  /\ ~isActive /\ statusLog # <<>>
  /\ statusLog[Len(statusLog)] = "ended" \/ errorCount > 0

\* C26: the statuses a live session emits after 'connecting' are connected
\* and streaming, in that order and each at most once; and once 'ended' or an
\* error has been reported and the session is inactive, no step other than a
\* call of start() emits 'streaming' or sets streamStarted.
C26_LiveStatusOrder ==
  [][ IsLive =>
        /\ InLiveOrder(BeforeEnded(statusLog'))
        /\ (TornDown /\ calls' = calls) =>
              /\ Count(statusLog', "streaming") = Count(statusLog, "streaming")
              /\ (streamStarted' => streamStarted) ]_vars

\* frames the live session treats as a server error
LiveErrorFrames ==
  {m \in LiveFrames : m.kind = "json" /\ (m.action = "error"
                                           \/ (Truthy(m.code) /\ m.code # "0"))}

\* this step is the error event of connection c
TransportFailed(c) ==
  /\ IsLive /\ Idle
  /\ readyState[c] \in {"CONNECTING", "OPEN", "CLOSING"}
  /\ Becomes(liveOnerror([State EXCEPT !.readyState[c] = "CLOSED",
                                       !.closeEventDue = c], c))

\* this step is the connect timer of connection c firing while the session's
\* connection is still connecting
ConnectTimedOut(c) ==
  /\ IsLive /\ Idle /\ c \in connectTimers
  /\ ws # 0 /\ readyState[ws] = "CONNECTING"
  /\ Becomes(liveConnectTimeout([State EXCEPT !.connectTimers = @ \ {c}], c))

\* in this step start() number k throws to its caller
StartThrew(k) == startPc[k] # "thrown" /\ startPc'[k] = "thrown"

\* in this step startAudioCapture of start() number k fails
CaptureFailed(k) ==
  /\ startPc[k] \in {"getUserMedia", "resume", "addModule"}
  /\ StartThrew(k)

\* after this step the session is inactive and the connection it held, if
\* any, is closed or closing
LeftInactive ==
  /\ ~isActive'
  /\ ws # 0 => readyState'[ws] \in {"CLOSING", "CLOSED"}
  /\ ws' # 0 => readyState'[ws'] \in {"CLOSING", "CLOSED"}

ConnectTimerFired(c) ==
  /\ IsLive /\ Idle /\ c \in connectTimers
  /\ Becomes(liveConnectTimeout([State EXCEPT !.connectTimers = @ \ {c}], c))

\* C28: the connect timer armed by one start() acts only on the connection
\* that start() created: when it fires, no other connection, and so none
\* opened by a later start(), is closed.
C28_TimerOwnConnection ==
  [][ \A c \in 1..Len(readyState) :
        ConnectTimerFired(c) =>
          \A d \in 1..Len(readyState) :
            d # c => closeCalls'[d] = closeCalls[d] /\ readyState'[d] = readyState[d] ]_vars

\* this step is the close event of connection c
CloseEventOf(c) ==
  /\ IsLive /\ microtasks = <<>>
  /\ \/ closeEventDue = c
     \/ closeEventDue = 0 /\ readyState[c] \in {"OPEN", "CLOSING"}
  /\ Becomes(liveOnclose([State EXCEPT !.readyState[c] = "CLOSED",
                                       !.closeEventDue = 0]))

\* the first start() opened connection 1, stop() closed it (it was open, it
\* got its close() call, 'ended' was emitted and no error was ever reported),
\* and a second start() has made the session active again
RestartedAfterStop ==
  /\ IsLive /\ Len(startPc) = 2 /\ isActive
  /\ startConn[1] = 1 /\ closeCalls[1] = 1
  /\ Count(statusLog, "connected") >= 1 /\ Count(statusLog, "ended") >= 1
  /\ errorCount = 0

\* C29: after stop() and a new start(), the close and error events of the
\* earlier connection leave the new session alone: they emit no status, do
\* not clear isActive, do not run cleanup (no close() call, ws kept) and do
\* not change the segment map.
C29_OldEventsIgnored ==
  [][ (RestartedAfterStop /\ (CloseEventOf(1) \/ TransportFailed(1))) =>
        /\ statusLog' = statusLog
        /\ isActive'
        /\ ws' = ws /\ closeCalls' = closeCalls
        /\ segments' = segments ]_vars

\* in this step start() number k returns to its caller or throws
StartFinished(k) ==
  /\ startPc[k] \notin {"done", "thrown"}
  /\ startPc'[k] \in {"done", "thrown"}

\* stop() was called while the only start() so far was in progress: 'ended'
\* was emitted after its 'connecting', and not by a close event, as its
\* connection does not exist yet or has not closed; no error was reported
StoppedDuringStart ==
  /\ IsLive /\ Len(startPc) = 1
  /\ statusLog[1] = "connecting" /\ Count(statusLog, "ended") >= 1
  /\ errorCount = 0
  /\ Len(readyState) = 0 \/ readyState[1] # "CLOSED"

\* C30: when stop() was called while start() was in progress, then at the
\* moment start() returns or throws the session is inactive and holds no
\* open connection, no audio context, no media source and no worklet node.
C30_StopDuringStart ==
  [][ (StoppedDuringStart /\ StartFinished(1)) =>
        /\ ~isActive'
        /\ ws' = 0 \/ readyState'[ws'] \in {"CLOSING", "CLOSED"}
        /\ ~audioContext' /\ ~source' /\ ~audioWorkletNode' ]_vars


----------------------------------------------------------------------------
(* Properties of the surrounding application *)

\* the session function found its signal aborted and returned before it
\* installed any handler
AbortedAtStart == IsStream /\ pc = "running" /\ ~handlersSet

\* C33: when the abort signal is already aborted at the cancellation check
\* of streamIflytekRealtime, the call rejects with the cancellation error, no
\* status, update or error callback is ever made, nothing (no audio chunk, no
\* end marker) is ever sent, and the connection it created got its close().
C33_AbortedAtStart ==
  AbortedAtStart =>
    /\ outcome.state = "rejected" /\ outcome.error = MsgCancelled
    /\ statusLog = <<>> /\ updateCount = 0 /\ errorCount = 0
    /\ sent = <<>>
    /\ closeCalls[1] >= 1 /\ readyState[1] \in {"CLOSING", "CLOSED"}

\* such a call of the file-streaming session, after its connect timer fired
\* and its connection closed
C33_Witness ==
  /\ AbortedAtStart /\ variant = "file" /\ signal = "aborted"
  /\ connectTimers = {} /\ readyState[1] = "CLOSED"


\* the recognition results with a non-empty text that the live session may
\* receive, whatever else their envelope carries
LiveTextResults ==
  {m \in LiveFrames : /\ m.kind = "json"
                      /\ m.msg_type = "result" /\ m.res_type = "asr"
                      /\ parseResultText(m.cn) # <<>>}

\* C34: in the live session every inbound recognition result (msg_type
\* 'result', res_type 'asr') whose decoded text is non-empty produces exactly
\* one onUpdate, whatever action, code or desc the same message carries.
C34_EveryResultUpdates ==
  [][ \A m \in LiveTextResults :
        LiveReceived(m) => updateCount' = updateCount + 1 ]_vars


\* the connections of the session object that are connecting or open
LiveConnections == {c \in 1..Len(readyState) : readyState[c] \in {"CONNECTING", "OPEN"}}

\* C35: start() on a live session that is active, or whose earlier start()
\* is still in progress, opens no second connection: at any time at most one
\* connection of a session object is open or connecting.
C35_OneConnection == IsLive => Cardinality(LiveConnections) <= 1


\* the params object has an entry under the key
HasParam(key) == \E i \in 1..Len(params) : params[i][1] = key

ParamOf(key) == params[CHOOSE i \in 1..Len(params) : params[i][1] = key][2]

\* C36: the connection parameters contain a samplerate entry if and only if
\* the effective audio encoding (the configured one, or pcm_s16le when none
\* is configured) is pcm_s16le, in the file-streaming session and in the
\* live session.
C36_SamplerateOnlyForPcm ==
  (pc = "built" /\ variant \in {"file", "live"}) =>
    (HasParam("samplerate") <=> ParamOf("audio_encode") = "pcm_s16le")


\* the end-of-audio markers handed to ws.send so far
EndMarkersSent == {i \in 1..Len(sent) : sent[i].item.kind = "end"}

\* C38: the session identifier carried by an end-of-audio marker equals the
\* uuid sent in the connection parameters of the connection it is sent on,
\* for every session, including a live session stopped and restarted on the
\* same session object.
C38_EndMarkerSessionId ==
  \A i \in EndMarkersSent : sent[i].item.sessionId = connUuid[sent[i].conn]


\* C31: once stopLiveTranscription has run and the start loop that was in
\* progress has finished, no live session the loop created is active, at
\* whichever point of the per-model loop stop was invoked.
C31_StoppedMeansInactive ==
  (IsPanel /\ ~isGlobalActive /\ loopModel = 0) =>
    \A k \in 1..Len(panelSessions) : ~panelSessions[k].isActive


\* this step is the continuation of handleTranscribe after its tasks settled
RunFinished == IsStream /\ TasksSettled /\ Becomes(allSettled(State))

\* handleCancel was called during the run in progress: only it clears
\* isProcessing before the run ends
RunCancelled == appPc # "idle" /\ ~isProcessing

\* after this step the history is its latest items before the step, at most
\* n of them and in their order, followed by one item it did not hold
AppendsAfterLast(n) ==
  LET kept == Len(history') - 1
  IN /\ kept = (IF Len(history) <= n THEN Len(history) ELSE n)
     /\ \A i \in 1..kept : history'[i] = history[Len(history) - kept + i]
     /\ \A i \in 1..Len(history) : history[i] # history'[kept + 1]

\* C37: the stored history never holds more than 20 items: a completed run
\* appends exactly one item after the 19 most recent earlier items, which
\* keep their order, and a cancelled run or a run in which no model produced
\* a transcript appends nothing.
C37_HistoryBounded ==
  [][ /\ Len(history') <= HISTORY_KEPT + 1
      /\ RunFinished =>
           IF RunCancelled \/ outcome.state # "resolved"
             THEN history' = history
             ELSE AppendsAfterLast(HISTORY_KEPT) ]_vars


\* the streaming session of the run in progress has ended: its promise is
\* settled (final result, error, timeout, cancellation) or its closed flag
\* is set (teardown, or the peer closed the connection)
SessionEnded == appPc = "tasks" /\ (outcome.state # "pending" \/ closed)

\* C32: handleTranscribe always finishes: however the streaming session of a
\* model ends (final result, error, timeout, the peer closing the connection
\* without a final result), the tasks settle and isProcessing returns to
\* false, without the user pressing cancel.
C32_TranscribeFinishes == SessionEnded ~> ~isProcessing

====
